---- MODULE Spec2Model ----
(***************************************************************************)
(* A model of the omnia capability runtime:                                *)
(*   - the outbound HTTP cache (crates/wasi-http/src/guest/cache.rs and    *)
(*     outgoing.rs): the Cache-Control directive parser, Cache::get,       *)
(*     Cache::put, the serialized record and the handle entry point;     *)
(*   - the per-store resource table and the handle protocol of the         *)
(*     key-value and messaging capabilities;                               *)
(*   - the inbound HTTP server (crates/wasi-http/src/host/server.rs);      *)
(*   - the identity token cache (crates/wasi-identity).                    *)
(*   - the telemetry export, the outbound request, the messaging pump,     *)
(*     the key-value capability calls and the guest error conversions;     *)
(*   - the websocket backend, the runtime startup, the SQL parameter       *)
(*     binding (crates/wasi-sql) and the generated messaging guest         *)
(*     (crates/guest-macro), each under a specification of its own.        *)
(* The specifications share the module's variables: ParseSpec applies the  *)
(* directive parser to bounded header sets, Spec drives the outbound       *)
(* cache, TableSpec the resource tables, ServeSpec the inbound server and  *)
(* IdentitySpec the token cache, StoresSpec the stores of concurrent calls *)
(* and the objects behind their handles.                                   *)
(***************************************************************************)
EXTENDS Integers, Sequences, FiniteSets, TLC

VARIABLES
    headers,    \* ParseSpec: the request headers handed to Control::try_from
    parsed,     \* ParseSpec: the result of Control::try_from, or Pending
    now,        \* Spec: the clock, in seconds
    bucket,     \* Spec: the key-value bucket behind the cache, key -> entry
    last,       \* Spec: the outcome of the latest outbound handle call
    table,      \* TableSpec: the resource table of the store of the running call
    trapped,    \* TableSpec: the guest of the running call has trapped
    res,        \* TableSpec: the outcome of the latest host call
    serve,      \* ServeSpec: the inbound HTTP connection and the request it serves
    ident,      \* IdentitySpec: the token manager, its clock and its get_token calls
    stores,     \* StoresSpec: the stores of the calls in progress and their objects
    otel,       \* OtelSpec: the host span and the latest export of guest spans
    send,       \* SendSpec: the outbound HTTP request in flight and its outcome
    pump,       \* messaging pump: tasks spawned per broker message, counters
    cap,        \* capability calls: a key of a shared bucket, increment calls, a CAS handle
    errs,       \* guest error handling: an error, its context layers, conversions
    ws,         \* websocket backend: connection map, socket tasks, event subscription
    boot,       \* runtime startup: links, backend connections, listener task, servers
    sql,        \* wasi-sql default backend: the parameters of the latest statement and their bound values
    guest       \* generated messaging guest: declared topics, ENV, the latest handled message

vars == <<headers, parsed, now, bucket, last, table, trapped, res, serve, ident, stores, otel, send, pump, cap, errs, ws, boot, sql, guest>>

(***************************************************************************)
(* Bounds of the model.                                                    *)
(***************************************************************************)
\* longest Cache-Control directive list the parser is applied to
MaxDirectives == 3
\* largest max-age value in a parsed header
MaxAgeValue == 2
\* the clock stops here
MaxTime == 2

(***************************************************************************)
(* Header values.  A header is absent, opaque (bytes that are not visible  *)
(* ASCII, so HeaderValue::to_str fails) or text, a sequence of characters. *)
(***************************************************************************)
NoHeader == [p |-> "absent", s |-> <<>>]
Opaque == [p |-> "opaque", s |-> <<>>]
Text(s) == [p |-> "text", s |-> s]

\* str::contains(c)
Contains(s, c) == \E i \in 1..Len(s) : s[i] = c

\* str::starts_with(prefix)
StartsWith(s, prefix) ==
    /\ Len(s) >= Len(prefix)
    /\ \A i \in 1..Len(prefix) : s[i] = prefix[i]

(***************************************************************************)
(* Cache-Control.  The header value is modelled after split(','), trim and *)
(* to_ascii_lowercase: a sequence of directives.  A max-age directive      *)
(* carries the integer written after '='; a negative one stands for every  *)
(* text that does not parse as u64.                                        *)
(***************************************************************************)
Dir(d, v) == [d |-> d, v |-> v]

Directives ==
    {Dir("no-store", 0), Dir("no-cache", 0), Dir("private", 0), Dir("", 0)}
        \cup {Dir("max-age", v) : v \in -1..MaxAgeValue}

RECURSIVE SeqsUpTo(_, _)
SeqsUpTo(S, n) ==
    IF n = 0 THEN {<<>>}
    ELSE LET shorter == SeqsUpTo(S, n - 1)
         IN  shorter \cup {Append(q, x) : q \in {r \in shorter : Len(r) = n - 1}, x \in S}

\* the Cache-Control header: absent, opaque, or a directive list (the empty
\* list is the empty header value)
CacheControlValues ==
    {NoHeader, Opaque} \cup {Text(ds) : ds \in SeqsUpTo(Directives, MaxDirectives)}

IfNoneMatchValues ==
    {NoHeader, Opaque, Text(<<>>), Text(<<"a">>), Text(<<"b">>),
     Text(<<"W", "/", "a">>), Text(<<"a", ",", "b">>)}

(***************************************************************************)
(* Control and Control::try_from.                                          *)
(***************************************************************************)
\* Control::default()
DefaultControl == [no_cache |-> FALSE, no_store |-> FALSE, max_age |-> 0, etag |-> <<>>]

Ok(c) == [ok |-> TRUE, control |-> c, err |-> ""]
Err(e) == [ok |-> FALSE, control |-> DefaultControl, err |-> e]

\* one iteration of the directive loop; acc is Ok(control) or the error bailed with
Directive(acc, d) ==
    LET control == acc.control IN
    IF ~acc.ok THEN acc
    ELSE IF d.d = "" THEN acc
    ELSE IF d.d = "no-store" THEN
        IF control.no_cache \/ control.max_age > 0
        THEN Err("no-store cannot be combined with other cache directives")
        ELSE Ok([control EXCEPT !.no_store = TRUE])
    ELSE IF d.d = "no-cache" THEN
        IF control.no_store
        THEN Err("no-cache cannot be combined with no-store")
        ELSE Ok([control EXCEPT !.no_cache = TRUE])
    ELSE IF d.d = "max-age" THEN
        IF control.no_store
        THEN Err("max-age cannot be combined with no-store")
        ELSE IF d.v < 0 THEN Err("max-age directive is malformed")
        ELSE Ok([control EXCEPT !.max_age = d.v])
    ELSE acc

RECURSIVE ParseDirectives(_, _)
ParseDirectives(acc, ds) ==
    IF ds = <<>> THEN acc
    ELSE ParseDirectives(Directive(acc, Head(ds)), Tail(ds))

\* the If-None-Match block, entered with the control the directive loop left
RequireEtag(control, inm) ==
    IF ~control.no_store /\ ~control.no_cache THEN
        IF inm.p = "absent" THEN Err("If-None-Match header required")
        ELSE IF inm.p = "text" /\ inm.s = <<>> THEN Err("If-None-Match header is empty")
        ELSE IF inm.p = "opaque" THEN Err("to_str")
        ELSE IF Contains(inm.s, ",") THEN Err("multiple etag values")
        ELSE IF StartsWith(inm.s, <<"W", "/">>) THEN Err("weak etag values")
        ELSE Ok([control EXCEPT !.etag = inm.s])
    ELSE Ok(control)

\* Control::try_from(&HeaderMap)
TryFrom(h) ==
    IF h.cc.p = "absent" THEN Ok(DefaultControl)
    ELSE IF h.cc.p = "text" /\ h.cc.s = <<>> THEN Err("Cache-Control header is empty")
    ELSE IF h.cc.p = "opaque" THEN Err("to_str")
    ELSE LET looped == ParseDirectives(Ok(DefaultControl), h.cc.s)
         IN  IF looped.ok THEN RequireEtag(looped.control, h.inm) ELSE looped

(***************************************************************************)
(* Responses and the serialized record.                                    *)
(***************************************************************************)
HeaderNames == {"content-type", "etag"}

NoHeaders == [n \in HeaderNames |-> NoHeader]

Response(status, ct, etag, body) ==
    [status |-> status,
     headers |-> [n \in HeaderNames |-> IF n = "etag" THEN etag ELSE ct],
     body |-> body]

NoResponse == Response(0, NoHeader, NoHeader, <<>>)

\* what the upstream may answer: a response, or a failed call
Upstreams ==
    {[ok |-> TRUE, resp |-> Response(200, Text(<<"t">>), NoHeader, <<1>>)],
     [ok |-> TRUE, resp |-> Response(404, Opaque, Text(<<"u">>), <<>>)],
     [ok |-> FALSE, resp |-> NoResponse]}

\* bytes held by the bucket: an rkyv archive of a Serialized record, or
\* anything else
Archive(status, hs, body) == [tag |-> "rkyv", status |-> status, headers |-> hs, body |-> body]
Garbage == [tag |-> "garbage", status |-> 0, headers |-> NoHeaders, body |-> <<>>]

\* v.to_str().unwrap_or_default().to_string()
DisplayValue(v) == IF v.p = "opaque" THEN Text(<<>>) ELSE v

\* serialize(&Response<Bytes>): Serialized::try_from, then rkyv::to_bytes
Serialize(response) ==
    Archive(response.status,
            [n \in HeaderNames |-> DisplayValue(response.headers[n])],
            response.body)

\* a deserialize that rebuilds the response without its headers
DeserializeNoHeaders(data) ==
    IF data.tag = "rkyv"
    THEN [ok |-> TRUE,
          resp |-> [status |-> data.status, headers |-> NoHeaders, body |-> data.body]]
    ELSE [ok |-> FALSE, resp |-> NoResponse]

\* deserialize(&[u8]): rkyv::from_bytes, then Response::try_from(Serialized)
Deserialize(data) ==
    IF data.tag = "rkyv"
    THEN [ok |-> TRUE,
          resp |-> [status |-> data.status, headers |-> data.headers, body |-> data.body]]
    ELSE [ok |-> FALSE, resp |-> NoResponse]

(***************************************************************************)
(* The bucket behind the cache, reached through the guest-side key-value   *)
(* cache API (open / get / set with a TTL in seconds).                     *)
(***************************************************************************)
Keys == {v.s : v \in {w \in IfNoneMatchValues : w.p = "text"}}

NoEntry == [present |-> FALSE, data |-> Garbage, expires |-> 0]

\* cache.get(key): the live entry bytes
BucketGet(b, key, t) ==
    IF b[key].present /\ t < b[key].expires
    THEN [some |-> TRUE, data |-> b[key].data]
    ELSE [some |-> FALSE, data |-> Garbage]

\* cache.set(key, value, Some(ttl))
BucketSet(b, key, data, ttl, t) ==
    [b EXCEPT ![key] = [present |-> TRUE, data |-> data, expires |-> t + ttl]]

(***************************************************************************)
(* Cache::maybe_from, Cache::get, Cache::put.                              *)
(***************************************************************************)
\* a maybe_from that takes unparsable headers for a request without caching
MaybeFromLenient(req) ==
    IF req.cc.p = "absent" THEN [ok |-> TRUE, some |-> FALSE, control |-> DefaultControl]
    ELSE LET c == TryFrom(req)
         IN  [ok |-> TRUE, some |-> c.ok, control |-> c.control]

\* Cache::maybe_from(&request)
MaybeFrom(req) ==
    IF req.cc.p = "absent" THEN [ok |-> TRUE, some |-> FALSE, control |-> DefaultControl]
    ELSE LET c == TryFrom(req)
         IN  [ok |-> c.ok, some |-> c.ok, control |-> c.control]

\* a get that takes undecodable bytes for a miss
CacheGetDecodeMiss(ctrl, b, t) ==
    IF ctrl.no_cache \/ ctrl.no_store \/ ctrl.etag = <<>>
    THEN [ok |-> TRUE, hit |-> FALSE, resp |-> NoResponse, read |-> FALSE,
          found |-> [some |-> FALSE, data |-> Garbage]]
    ELSE LET v == BucketGet(b, ctrl.etag, t)
             d == Deserialize(v.data)
         IN  IF ~v.some
             THEN [ok |-> TRUE, hit |-> FALSE, resp |-> NoResponse, read |-> TRUE, found |-> v]
             ELSE [ok |-> TRUE, hit |-> d.ok, resp |-> d.resp, read |-> TRUE, found |-> v]

\* Cache::get(&self): read tells whether the bucket was looked up
CacheGet(ctrl, b, t) ==
    IF ctrl.no_cache \/ ctrl.no_store \/ ctrl.etag = <<>>
    THEN [ok |-> TRUE, hit |-> FALSE, resp |-> NoResponse, read |-> FALSE,
          found |-> [some |-> FALSE, data |-> Garbage]]
    ELSE LET v == BucketGet(b, ctrl.etag, t)
             d == Deserialize(v.data)
         IN  IF ~v.some
             THEN [ok |-> TRUE, hit |-> FALSE, resp |-> NoResponse, read |-> TRUE, found |-> v]
             ELSE [ok |-> d.ok, hit |-> d.ok, resp |-> d.resp, read |-> TRUE, found |-> v]

\* Cache::put(&self, &response)
CachePut(ctrl, response, b, t) ==
    IF ctrl.no_store \/ ctrl.etag = <<>> \/ ctrl.max_age = 0
    THEN [wrote |-> FALSE, bucket |-> b]
    ELSE [wrote |-> TRUE,
          bucket |-> BucketSet(b, ctrl.etag, Serialize(response), ctrl.max_age, t)]

(***************************************************************************)
(* handle(request): the outbound entry point.                              *)
(***************************************************************************)
Outcome(kind, resp, read, wrote, net, found, b) ==
    [kind |-> kind, resp |-> resp, read |-> read, wrote |-> wrote, net |-> net,
     found |-> found, bucket |-> b]

NotFound == [some |-> FALSE, data |-> Garbage]

\* an insert that keeps an ETag the upstream sent
InsertEtagIfAbsent(response, etag) ==
    IF response.headers["etag"] = NoHeader
    THEN [response EXCEPT !.headers = [@ EXCEPT !["etag"] = Text(etag)]]
    ELSE response

\* response.headers_mut().insert(ETAG, HeaderValue::from_str(&cache.etag())?)
InsertEtag(response, etag) ==
    [response EXCEPT !.headers = [@ EXCEPT !["etag"] = Text(etag)]]

\* the part of handle after the cache read missed: forward, read the body,
\* inject the ETag and write the cache
Forward(mc, g, up, b, t) ==
    IF ~up.ok THEN Outcome("error", NoResponse, g.read, FALSE, TRUE, g.found, b)
    ELSE IF mc.some
         THEN LET response == InsertEtag(up.resp, mc.control.etag)
                  p == CachePut(mc.control, response, b, t)
              IN  Outcome("fetched", response, g.read, p.wrote, TRUE, g.found, p.bucket)
         ELSE Outcome("fetched", up.resp, g.read, FALSE, TRUE, g.found, b)

\* a handle that injects the ETag into a hit as it does into a fetched response
HandleEtagOnHit(req, up, b, t) ==
    LET mc == MaybeFrom(req) IN
    IF ~mc.ok THEN Outcome("error", NoResponse, FALSE, FALSE, FALSE, NotFound, b)
    ELSE LET g == IF mc.some THEN CacheGet(mc.control, b, t)
                  ELSE [ok |-> TRUE, hit |-> FALSE, resp |-> NoResponse, read |-> FALSE,
                        found |-> NotFound]
         IN  IF ~g.ok THEN Outcome("error", NoResponse, g.read, FALSE, FALSE, g.found, b)
             ELSE IF g.hit
                  THEN Outcome("hit", InsertEtag(g.resp, mc.control.etag), g.read, FALSE,
                               FALSE, g.found, b)
             ELSE Forward(mc, g, up, b, t)

\* handle(request)
Handle(req, up, b, t) ==
    LET mc == MaybeFrom(req) IN
    IF ~mc.ok THEN Outcome("error", NoResponse, FALSE, FALSE, FALSE, NotFound, b)
    ELSE LET g == IF mc.some THEN CacheGet(mc.control, b, t)
                  ELSE [ok |-> TRUE, hit |-> FALSE, resp |-> NoResponse, read |-> FALSE,
                        found |-> NotFound]
         IN  IF ~g.ok THEN Outcome("error", NoResponse, g.read, FALSE, FALSE, g.found, b)
             ELSE IF g.hit THEN Outcome("hit", g.resp, g.read, FALSE, FALSE, g.found, b)
             ELSE Forward(mc, g, up, b, t)

\* the outbound requests the guest makes
HandleCacheControls ==
    {NoHeader,
     Text(<<Dir("no-store", 0)>>),
     Text(<<Dir("no-cache", 0)>>),
     Text(<<Dir("max-age", 0)>>),
     Text(<<Dir("max-age", MaxAgeValue)>>),
     Text(<<Dir("no-cache", 0), Dir("max-age", MaxAgeValue)>>),
     Text(<<Dir("no-store", 0), Dir("max-age", MaxAgeValue)>>)}

HandleIfNoneMatch == {NoHeader, Text(<<"a">>), Text(<<"W", "/", "a">>)}

HandleRequests == [cc : HandleCacheControls, inm : HandleIfNoneMatch]

NoRequest == [cc |-> NoHeader, inm |-> NoHeader]

(***************************************************************************)
(* The per-call store: its resource table, as the host functions of the    *)
(* key-value and messaging capabilities use it.  A handle is the index     *)
(* (rep) of an entry; freed indexes are handed out again, last freed first.*)
(***************************************************************************)
MaxSlots == 2

Reps == 0..MaxSlots
Payloads == {"p", "q"}

ContentTypes == {"t"}

\* an entry: its type, its payload and its content-type where it is a message
FreeEntry == [kind |-> "free", val |-> "", ct |-> ""]
BucketEntry == [kind |-> "bucket", val |-> "", ct |-> ""]
MessageEntry(data) == [kind |-> "message", val |-> data, ct |-> ""]

\* the Arc<dyn Message> a mutator builds from a clone of the message
UpdatedMessage(data, ct) == [kind |-> "arc-message", val |-> data, ct |-> ct]

\* set_payload(message, data)
SetPayload(e, data) == UpdatedMessage(data, e.ct)

\* set_content_type(message, content_type)
SetContentType(e, ct) == UpdatedMessage(e.val, ct)

\* ResourceTable::new()
EmptyTable == [entries |-> <<>>, free |-> <<>>]

\* the bound of the model: the table has a slot to hand out
HasRoom(t) == t.free # <<>> \/ Len(t.entries) < MaxSlots

\* table.push(entry)
TablePush(t, e) ==
    IF t.free # <<>>
    THEN [rep |-> Head(t.free),
          table |-> [entries |-> [t.entries EXCEPT ![Head(t.free) + 1] = e],
                     free |-> Tail(t.free)]]
    ELSE [rep |-> Len(t.entries),
          table |-> [entries |-> Append(t.entries, e), free |-> t.free]]

\* the index holds an entry
Occupied(t, rep) == rep < Len(t.entries) /\ t.entries[rep + 1].kind # "free"

\* table.get(&resource) for a Resource of the given type
TableGet(t, rep, kind) ==
    IF ~Occupied(t, rep) THEN [ok |-> FALSE, err |-> "NotPresent", val |-> ""]
    ELSE IF t.entries[rep + 1].kind # kind
         THEN [ok |-> FALSE, err |-> "WrongType", val |-> ""]
         ELSE [ok |-> TRUE, err |-> "", val |-> t.entries[rep + 1].val]

\* the table with the entry at rep freed
TableFree(t, rep) ==
    [entries |-> [t.entries EXCEPT ![rep + 1] = FreeEntry], free |-> <<rep>> \o t.free]

\* the result handed to the guest, or the trap that ends it
Result(op, rep, outcome, err, val) ==
    [op |-> op, rep |-> rep, outcome |-> outcome, err |-> err, val |-> val]

NoResult == Result("none", 0, "ok", "", "")

(***************************************************************************)
(* The inbound HTTP server (crates/wasi-http/src/host/server.rs): one      *)
(* keep-alive connection, the request it serves, the guest that handles it *)
(* and what the client has received.                                       *)
(***************************************************************************)
MaxTuples == 2
MaxChunks == 2
MaxErrors == 2

\* a part of a header value or of a URI, as text; <<>> where the URI has none
NoPart == <<>>

\* one tuple of the Forwarded header after split(';') and trim
Tuple(k, v) == [k |-> k, v |-> v]

ForwardedTuples == {Tuple("host", <<"a">>), Tuple("proto", <<"https">>), Tuple("for", <<"x">>)}

ForwardedValues ==
    {NoHeader, Opaque} \cup {Text(ts) : ts \in SeqsUpTo(ForwardedTuples, MaxTuples)}

HostValues == {NoHeader, Opaque, Text(<<"h">>)}

InboundRequests == [forwarded : ForwardedValues, host : HostValues]

NoInbound == [forwarded |-> NoHeader, host |-> NoHeader]

Uri(scheme, authority) == [scheme |-> scheme, authority |-> authority]

NoUri == Uri(NoPart, NoPart)

\* the Forwarded loop: each host= sets the authority, each proto= the scheme
RECURSIVE ForwardedParts(_, _)
ForwardedParts(uri, ts) ==
    IF ts = <<>> THEN uri
    ELSE LET t == Head(ts)
             next == IF t.k = "host" THEN Uri(uri.scheme, t.v)
                     ELSE IF t.k = "proto" THEN Uri(t.v, uri.authority)
                     ELSE uri
         IN  ForwardedParts(next, Tail(ts))

\* uri_builder.build() with the path and query always set
BuildUri(uri) ==
    IF uri.scheme # NoPart /\ uri.authority = NoPart THEN [ok |-> FALSE, uri |-> NoUri]
    ELSE IF uri.scheme = NoPart /\ uri.authority # NoPart THEN [ok |-> FALSE, uri |-> NoUri]
    ELSE [ok |-> TRUE, uri |-> uri]

\* fix_request(request)
FixRequest(req) ==
    IF req.forwarded.p # "absent"
    THEN IF req.forwarded.p = "opaque" THEN [ok |-> FALSE, uri |-> NoUri]
         ELSE BuildUri(ForwardedParts(NoUri, req.forwarded.s))
    ELSE IF req.host.p = "absent" THEN [ok |-> FALSE, uri |-> NoUri]
         ELSE IF req.host.p = "opaque" THEN [ok |-> FALSE, uri |-> NoUri]
         ELSE BuildUri(Uri(<<"http">>, req.host.s))

\* what the client has received of the response
Received(status, page, chunks, complete) ==
    [status |-> status, page |-> page, chunks |-> chunks, complete |-> complete]

NothingReceived == Received(0, "none", 0, FALSE)

\* internal_error(): the fixed page, whole
InternalError == Received(500, "fixed", 0, TRUE)

\* monotonic_counter.processing_errors = 1 for a response with status >= 500
CountError(n, status) == IF status >= 500 /\ n < MaxErrors THEN n + 1 ELSE n

InitServe ==
    serve = [phase |-> "idle", req |-> NoInbound, forwarded |-> FALSE, uri |-> NoUri,
             client |-> NothingReceived, total |-> 0, guest_error |-> FALSE,
             export |-> "none", logged |-> FALSE, errors |-> 0]

(***************************************************************************)
(* The identity token manager (wasi-identity default implementation).      *)
(***************************************************************************)
MaxClock == 2
MaxTtl == 2
Calls == {1, 2}
\* token strings; NoToken is the empty string of AccessToken::default()
NoToken == 0
Tokens == {1, 2}
\* the scope list each caller passes to get_token on every call of its own;
\* NoScopes is the empty list
NoScopes == <<>>
CallerScopes == [c \in Calls |-> IF c = 1 THEN <<"read">> ELSE <<"write">>]

AccessToken(token, expires_in) == [token |-> token, expires_in |-> expires_in]

\* the Result<AccessToken> of a get_token call
TokenOk(token) == [ok |-> TRUE, val |-> token]
TokenErr == [ok |-> FALSE, val |-> NoToken]
DefaultToken == AccessToken(NoToken, 0)

\* CachedToken::new(access_token) at the instant at
CachedTokenNew(access_token, at) ==
    [access_token |-> access_token, expires_at |-> at + access_token.expires_in]

\* a cache that counts a token as valid one second less
CacheValidStrict(cache, at) == cache.expires_at > at + 1

\* cache.expires_at > now
CacheValid(cache, at) == cache.expires_at > at

\* one get_token call: where it is in TokenManager::token, the instant it read
\* on entry, the token its exchange returned, its result, and what is recorded
\* about it: whether it performed an exchange, and whether it started with no
\* other call in flight after a call that had returned the token first, valid
\* at this call's instant
IdleCall ==
    [pc |-> "idle", now |-> 0, fetched |-> DefaultToken, result |-> TokenErr,
     exchanged |-> FALSE, follows |-> FALSE, first |-> NoToken]

NoPrevious == [token |-> NoToken, until |-> 0, exchanged |-> FALSE, ok |-> FALSE]

InFlight == {c \in Calls : ident.calls[c].pc \in {"exchange", "recheck"}}

\* TokenManager::new(options); granted records the scope list of the exchange
\* that obtained the cached token
InitIdentity ==
    ident = [clock |-> 0,
             cache |-> [access_token |-> DefaultToken, expires_at |-> 0],
             granted |-> NoScopes,
             calls |-> [c \in Calls |-> IdleCall],
             prev |-> NoPrevious]

(***************************************************************************)
(* The stores of the calls in progress.  Every call gets a store of its    *)
(* own from State::store(); the handle-returning capabilities push their   *)
(* objects into its resource table, and the store is dropped with the call.*)
(***************************************************************************)
MaxObjects == 2
StoreIds == {1, 2}
Objects == 1..MaxObjects

\* the resources the capabilities hand out: a key-value bucket, an identity,
\* a websockets server
HandleKinds == {"bucket", "identity", "server"}

\* the entry of the object id
ObjectEntry(kind, id) == [kind |-> kind, val |-> ToString(id), ct |-> ""]

\* the objects a table holds
ObjectsIn(t) ==
    {id \in Objects : \E i \in 1..Len(t.entries) :
        t.entries[i].kind # "free" /\ t.entries[i].val = ToString(id)}

\* a drop that forgets the objects
DroppedNone(drops, ids) == drops

\* the drop counts after each of the objects ids was dropped
Dropped(drops, ids) == [id \in Objects |-> IF id \in ids THEN drops[id] + 1 ELSE drops[id]]

\* a store that takes the table of another store
SharedTable(tabs, s) == tabs[CHOOSE o \in StoreIds : o # s]

\* table: ResourceTable::new() in State::store()
StoreTable(tabs, s) == EmptyTable

StoreResult(store, op, rep, outcome, obj) ==
    [store |-> store, op |-> op, rep |-> rep, outcome |-> outcome, obj |-> obj]

InitStores ==
    stores = [tab |-> [s \in StoreIds |-> EmptyTable],
              state |-> [s \in StoreIds |-> "none"],
              made |-> 0,
              owner |-> [id \in Objects |-> 0],
              drops |-> [id \in Objects |-> 0],
              explicit |-> {},
              issued |-> [s \in StoreIds |-> {}],
              res |-> StoreResult(0, "none", 0, "ok", 0)]

(***************************************************************************)
(* The telemetry export of guest spans (crates/wasi-otel/src/host/         *)
(* tracing_impl.rs).  Identifiers are byte strings, shortened to one byte; *)
(* the guest hands them over as hexadecimal text.                          *)
(***************************************************************************)
MaxSpans == 2

HexDigits == <<"0", "1", "2", "3", "4", "5", "6", "7", "8", "9", "a", "b", "c", "d", "e", "f">>

\* the value of a hexadecimal digit, 16 for any other character
HexValue(ch) ==
    IF \E i \in 1..16 : HexDigits[i] = ch
    THEN (CHOOSE i \in 1..16 : HexDigits[i] = ch) - 1
    ELSE 16

\* TraceId and SpanId to_string(): two lowercase digits for every byte
RECURSIVE ToHexString(_)
ToHexString(bytes) ==
    IF bytes = <<>> THEN <<>>
    ELSE <<HexDigits[(Head(bytes) \div 16) + 1], HexDigits[(Head(bytes) % 16) + 1]>>
         \o ToHexString(Tail(bytes))

RECURSIVE HexPairs(_)
HexPairs(text) ==
    IF text = <<>> THEN <<>>
    ELSE <<16 * HexValue(text[1]) + HexValue(text[2])>> \o HexPairs(Tail(Tail(text)))

\* hex::decode(text).unwrap_or_default()
HexDecode(text) ==
    IF Len(text) % 2 = 1 \/ \E i \in 1..Len(text) : HexValue(text[i]) = 16
    THEN <<>>
    ELSE HexPairs(text)

\* the span context of the current host span; an invalid context, all zero,
\* when no host span is active
HostSpan(active, trace_id, span_id) ==
    [active |-> active, trace_id |-> trace_id, span_id |-> span_id]
NoHostSpan == HostSpan(FALSE, <<0>>, <<0>>)
HostSpans == {HostSpan(TRUE, <<10>>, <<1>>), HostSpan(TRUE, <<255>>, <<172>>)}

\* the span data a guest exports
SpanData(trace_id, span_id, parent_span_id, scope) ==
    [trace_id |-> trace_id, span_id |-> span_id, parent_span_id |-> parent_span_id,
     is_remote |-> FALSE, scope |-> scope]
Scopes == {"a", "b"}
\* a root span, two children of it in two scopes, and a span whose parent is
\* not hexadecimal text
GuestSpans ==
    {SpanData(<<"7", "7">>, <<"0", "1">>, <<>>, "a"),
     SpanData(<<"7", "7">>, <<"0", "2">>, <<"0", "1">>, "a"),
     SpanData(<<"7", "7">>, <<"0", "3">>, <<"0", "1">>, "b"),
     SpanData(<<"7", "7">>, <<"0", "4">>, <<"z">>, "b")}
Batches == SeqsUpTo(GuestSpans, MaxSpans)

\* a parent set for root spans only
SetParentOfRoots(sp, host) ==
    [sp EXCEPT !.trace_id = ToHexString(host.trace_id),
               !.is_remote = TRUE,
               !.parent_span_id = IF sp.parent_span_id = <<>>
                                  THEN ToHexString(host.span_id)
                                  ELSE sp.parent_span_id]

\* set parent span: the loop body of export
SetParent(sp, host) ==
    [sp EXCEPT !.trace_id = ToHexString(host.trace_id),
               !.is_remote = TRUE,
               !.parent_span_id = ToHexString(host.span_id)]

\* From<wasi::SpanData> for Span
ProtoSpan(sp) ==
    [trace_id |-> HexDecode(sp.trace_id),
     span_id |-> HexDecode(sp.span_id),
     parent_span_id |-> HexDecode(sp.parent_span_id)]

\* the spans of one instrumentation scope, in the order of the batch
RECURSIVE SpansOfScope(_, _)
SpansOfScope(spans, scope) ==
    IF spans = <<>> THEN <<>>
    ELSE (IF Head(spans).scope = scope THEN <<ProtoSpan(Head(spans))>> ELSE <<>>)
         \o SpansOfScope(Tail(spans), scope)

ScopesOf(spans) == {spans[i].scope : i \in 1..Len(spans)}

\* the orders in which a hash map may yield the scopes
ScopeOrders(scopes) ==
    {order \in SeqsUpTo(Scopes, Cardinality(Scopes)) :
        /\ Len(order) = Cardinality(scopes)
        /\ {order[i] : i \in 1..Len(order)} = scopes}

\* resource_spans(spans, resource): the ScopeSpans, one for every scope, in
\* the given order
ResourceSpans(spans, order) ==
    [i \in 1..Len(order) |-> [scope |-> order[i], spans |-> SpansOfScope(spans, order[i])]]

NoExport == [batch |-> <<>>, at |-> NoHostSpan, sent |-> <<>>, result |-> "none"]

InitOtel == otel = [host |-> NoHostSpan, export |-> NoExport]

(***************************************************************************)
(* The outbound HTTP sender (crates/wasi-http/src/host/default_impl.rs):   *)
(* HttpDefault::send_request.  A header map is the sequence of the names   *)
(* of its values, a name once for every value it has.                      *)
(***************************************************************************)
MaxHosts == 3
MaxElapsed == 2
MaxTimeout == 1

FORBIDDEN_HEADERS ==
    <<"connection", "host", "proxy-authenticate", "proxy-authorization",
      "transfer-encoding", "upgrade", "keep-alive", "proxy-connection", "http2-settings">>

ForbiddenNames == {FORBIDDEN_HEADERS[i] : i \in 1..Len(FORBIDDEN_HEADERS)}

\* the header maps an upstream answers with
UpstreamHeaders ==
    {<<"content-type">>, FORBIDDEN_HEADERS \o <<"content-type">>}
    \cup {<<h, "x-safe-header">> : h \in ForbiddenNames}
    \cup {<<"content-type", h, "x-safe-header", h>> : h \in ForbiddenNames}

\* a removal that takes the first value of the name only
RemoveFirstValue(hs, name) ==
    IF \E i \in 1..Len(hs) : hs[i] = name
    THEN LET i == CHOOSE i \in 1..Len(hs) : hs[i] = name /\ \A j \in 1..(i - 1) : hs[j] # name
         IN SubSeq(hs, 1, i - 1) \o SubSeq(hs, i + 1, Len(hs))
    ELSE hs

\* headers.remove(name): every value of the name goes
RemoveHeader(hs, name) == SelectSeq(hs, LAMBDA h : h # name)

\* for header in &FORBIDDEN_HEADERS { headers.remove(header) }
RECURSIVE RemoveForbidden(_, _)
RemoveForbidden(hs, i) ==
    IF i > Len(FORBIDDEN_HEADERS) THEN hs
    ELSE RemoveForbidden(RemoveHeader(hs, FORBIDDEN_HEADERS[i]), i + 1)

\* the values of the Host headers of a request, in order
HostNames == {"h1", "h2"}
HostLists == SeqsUpTo(HostNames, MaxHosts)

\* dedupe Host headers: with more than one value, remove them all and append
\* all but the first
DedupeHosts(values) == IF Len(values) > 1 THEN Tail(values) ELSE values

\* RequestOptions with a timeout, or none
RequestOptions(some, timeout) == [some |-> some, timeout |-> timeout]
OptionsValues == {RequestOptions(FALSE, 0)} \cup {RequestOptions(TRUE, t) : t \in 1..MaxTimeout}

\* an outbound request: its Host values, its Client-Cert header (none, valid
\* or invalid), whether its body can be collected, and the caller's options
OutboundRequests ==
    [hosts : HostLists, cert : {"none", "valid", "invalid"}, collected : BOOLEAN,
     options : OptionsValues]

\* what a reqwest::Error answers to is_timeout, is_connect, is_request
ReqwestErrors == [timeout : BOOLEAN, connect : BOOLEAN, request : BOOLEAN]

\* reqwest_err(e)
ReqwestErr(e) ==
    IF e.timeout THEN "ConnectionTimeout"
    ELSE IF e.connect THEN "ConnectionRefused"
    ELSE IF e.request THEN "HttpRequestUriInvalid"
    ELSE "InternalError"

SendResult(kind, code, hs) == [kind |-> kind, code |-> code, headers |-> hs]
NoSendResult == SendResult("none", "", <<>>)

NoOutbound ==
    [hosts |-> <<>>, cert |-> "none", collected |-> TRUE, options |-> RequestOptions(FALSE, 0)]

InitSend ==
    send = [phase |-> "idle", req |-> NoOutbound, elapsed |-> 0,
            upstream |-> [sent |-> FALSE, hosts |-> <<>>, headers |-> <<>>],
            result |-> NoSendResult]

(***************************************************************************)
(* Messaging pump (wasi-messaging host/server.rs).  run takes each message *)
(* of the subscription stream and spawns a task that calls                 *)
(* Handler::handle; a task whose handle returns Err logs it and adds one   *)
(* to the processing_errors counter.                                       *)
(***************************************************************************)
MaxMessages == 3

Messages == 1..MaxMessages

\* how one Handler::handle call can end: the table push fails, the
\* instantiation fails, the guest traps, or the guest's handle export
\* returns its own Result<(), Error>
HandleOutcomes == {"push_failed", "instantiate_failed", "trap", "guest_err", "guest_ok"}

\* guest.call_handle(..).await.map(|_| ()): the value the guest returned,
\* Ok(()) or Err(error), is dropped; only a failed call is an error
CallHandle(outcome) ==
    IF outcome = "trap" THEN "Err" ELSE "Ok"

\* Result of Handler::handle for an outcome
HandleResult(outcome) ==
    IF outcome \in {"push_failed", "instantiate_failed"} THEN "Err"
    ELSE CallHandle(outcome)

InitPump ==
    pump = [open |-> TRUE,
            task |-> [m \in Messages |-> "queued"],
            message_counter |-> 0,
            processing_errors |-> 0]

(***************************************************************************)
(* Capability calls (wasi-keyvalue atomics_impl.rs over the in-memory      *)
(* bucket of default_impl.rs, wasi-blobstore blobstore_impl.rs).  One key  *)
(* of one bucket of the backing store, which every guest instance shares;  *)
(* increment calls made by separate instances; one instance that holds a   *)
(* CAS handle and calls swap, copy_object and move_object.                 *)
(***************************************************************************)
MaxStored == 2
MaxDelta == 2
MaxCallers == 2

Callers == 1..MaxCallers
Deltas == 1..MaxDelta

\* i64::to_be_bytes for a value that is not negative: k bytes, most
\* significant first
RECURSIVE BeBytes(_, _)
BeBytes(n, k) ==
    IF k = 0 THEN <<>> ELSE Append(BeBytes(n \div 256, k - 1), n % 256)

ToBeBytes(n) == BeBytes(n, 8)

\* i64::from_be_bytes
RECURSIVE BeValue(_, _)
BeValue(bytes, acc) ==
    IF bytes = <<>> THEN acc ELSE BeValue(Tail(bytes), acc * 256 + Head(bytes))

FromBeBytes(buf) == BeValue(buf, 0)

\* buf = [0u8; 8]; buf[..len].copy_from_slice(&slice[..len]), len = min(8, slice.len())
CopyToBuf(slice) ==
    [i \in 1..8 |-> IF i <= Len(slice) THEN slice[i] ELSE 0]

\* Option<Vec<u8>> held by the bucket for the key
NoValue == [some |-> FALSE, bytes |-> <<>>]
SomeValue(bytes) == [some |-> TRUE, bytes |-> bytes]

\* the typed results of a capability call; a call that ends without one has
\* kind "trap" or "panic"
TypedOk(val) == [kind |-> "ok", val |-> val]
TypedErr(msg) == [kind |-> "err", val |-> msg]
NoTyped == [kind |-> "none", val |-> 0]

\* an increment call before it starts
IdleIncrement == [pc |-> "idle", delta |-> 0, value |-> NoValue, result |-> NoTyped]

InitCapability ==
    cap = [value |-> NoValue,
           base |-> 0,
           calls |-> [c \in Callers |-> IdleIncrement],
           cas |-> FALSE,
           guest |-> "running",
           last |-> NoTyped]

(***************************************************************************)
(* Guest errors (warp-sdk error.rs, api/into_http.rs).  A handler raises   *)
(* a typed Error or a one-off anyhow error, wraps it with context layers,  *)
(* converts it back to the typed Error, and answers with an HttpError.     *)
(***************************************************************************)
MaxLayers == 2

ErrorVariants == {"BadRequest", "NotFound", "ServerError", "BadGateway"}
ErrorCodes == {"invalid", "server_error"}
Descriptions == {"inner"}
ContextTexts == {"outer", "middle"}

\* the enum Error; a one-off anyhow!(..) error has the variant "anyhow" and
\* its message as description
TypedError(variant, code, description) ==
    [variant |-> variant, code |-> code, description |-> description]

TypedErrors ==
    {TypedError(v, c, d) : v \in ErrorVariants, c \in ErrorCodes, d \in Descriptions}

OneOff(msg) == TypedError("anyhow", "", msg)

\* #[error("code: {code}, description: {description}")]
Display(e) ==
    IF e.variant = "anyhow" THEN e.description
    ELSE "code: " \o e.code \o ", description: " \o e.description

\* Error::status
Status(e) ==
    CASE e.variant = "BadRequest" -> 400
      [] e.variant = "NotFound" -> 404
      [] e.variant = "ServerError" -> 500
      [] e.variant = "BadGateway" -> 502

\* an anyhow::Error: the error it was made from and the context layers
\* added since, outermost first
AnyhowError(root, layers) == [root |-> root, layers |-> layers]

\* err.chain().map(ToString::to_string): innermost layer first, the
\* mutation of Chain
ChainInnermostFirst(err) ==
    <<Display(err.root)>> \o err.layers

\* err.chain().map(ToString::to_string)
Chain(err) ==
    err.layers \o <<Display(err.root)>>

\* Vec<String>::join
RECURSIVE Join(_, _)
Join(parts, sep) ==
    IF Len(parts) = 0 THEN ""
    ELSE IF Len(parts) = 1 THEN parts[1]
    ELSE parts[1] \o sep \o Join(Tail(parts), sep)

\* err.downcast_ref::<Error>() finds the typed error under text layers
HasTyped(err) == err.root.variant \in ErrorVariants

\* impl From<anyhow::Error> for Error
FromAnyhow(err) ==
    LET chain == Join(Chain(err), ": ")
    IN  IF HasTyped(err)
        THEN TypedError(err.root.variant, err.root.code, chain)
        ELSE TypedError("ServerError", "server_error", chain)

\* HttpError
HttpError(status, error) == [some |-> TRUE, status |-> status, error |-> error]
NoHttpError == [some |-> FALSE, status |-> 0, error |-> ""]

\* impl From<crate::Error> for HttpError
HttpFromError(e) == HttpError(Status(e), Display(e))

\* impl From<anyhow::Error> for HttpError: {e} is the outermost message,
\* root_cause() the last of the chain
HttpFromAnyhow(err) ==
    HttpError(IF HasTyped(err) THEN Status(err.root) ELSE 500,
              Head(Chain(err)) \o ", caused by: " \o Chain(err)[Len(Chain(err))])

NoError == TypedError("none", "", "")

InitErrors ==
    errs = [root |-> NoError,
            layers |-> <<>>,
            wrapped |-> FALSE,
            converted |-> NoError,
            response |-> NoHttpError]

(***************************************************************************)
(* WebSocket backend and server (wasi-websocket default_impl.rs,           *)
(* server.rs).  Each accepted socket runs handle_socket in its own task on *)
(* the multi-threaded runtime; the messages of the clients are broadcast   *)
(* as events; run subscribes with handler.events() and takes the next      *)
(* event of that subscription for each turn of its loop.                   *)
(***************************************************************************)
MaxSockets == 3
MaxEvents == 3

\* const MAX_CONNECTIONS: usize = 1024, scaled to the sockets of the model
MAX_CONNECTIONS == 2

Sockets == 1..MaxSockets

InitWebSocket ==
    ws = [connections |-> {},
          task |-> [s \in Sockets |-> "none"],
          sent |-> 0,
          early |-> 0,
          running |-> FALSE,
          subscribed |-> FALSE,
          queue |-> <<>>,
          handled |-> <<>>]

(***************************************************************************)
(* Runtime startup (runtime-macro expand.rs: run, Context::new,            *)
(* Context::start; wasi-websocket connect_with).  The runtime is generated *)
(* for a configuration of hosts, one of which may be the default WebSocket *)
(* backend.                                                                *)
(***************************************************************************)
MaxDispatched == 2

\* the hosts of a configuration, in the order they are linked and their
\* backends connected
Configurations ==
    {<<"http", "keyvalue">>,
     <<"http", "websocket", "keyvalue">>,
     <<"websocket", "http", "keyvalue">>,
     <<"http", "keyvalue", "websocket">>}

InitBoot ==
    boot = [phase |-> "create",
            hosts |-> <<>>,
            linked |-> 0,
            connected |-> 0,
            listener |-> "none",
            accepted |-> 0,
            instances |-> 0]

(***************************************************************************)
(* The SQLite connection of the wasi-sql default implementation: the       *)
(* parameters of a statement and the values bound to its placeholders.     *)
(***************************************************************************)
MaxParams == 2

\* the variants of DataType, each an Option of its payload
DataTypeVariants ==
    {"Boolean", "Int32", "Int64", "Uint32", "Uint64", "Float", "Double",
     "Str", "Binary", "Date", "Time", "Timestamp"}

\* the payload carried by the Some form of each variant in the model
SamplePayload(variant) ==
    CASE variant = "Boolean" -> "true"
      [] variant \in {"Int32", "Int64", "Uint32", "Uint64"} -> "7"
      [] variant \in {"Float", "Double"} -> "1.5"
      [] variant = "Str" -> "text"
      [] variant = "Binary" -> "bytes"
      [] variant = "Date" -> "2026-01-31"
      [] variant = "Time" -> "12:30:00.000"
      [] variant = "Timestamp" -> "2026-01-31T12:30:00Z"

DataTypeNone(variant) == [variant |-> variant, some |-> FALSE, payload |-> ""]
DataTypeSome(variant) == [variant |-> variant, some |-> TRUE, payload |-> SamplePayload(variant)]
DataTypes ==
    {DataTypeNone(v) : v \in DataTypeVariants} \cup {DataTypeSome(v) : v \in DataTypeVariants}

\* rusqlite::types::Value
ValueNull == [kind |-> "Null", payload |-> ""]
ValueOf(kind, payload) == [kind |-> kind, payload |-> payload]

\* datatype_to_rusqlite_value: the ten Some arms, then the catch-all
datatype_to_rusqlite_value(dt) ==
    CASE dt.variant = "Boolean" /\ dt.some ->
            ValueOf("Integer", IF dt.payload = "true" THEN "1" ELSE "0")
      [] dt.variant \in {"Int32", "Int64", "Uint32", "Uint64"} /\ dt.some ->
            ValueOf("Integer", dt.payload)
      [] dt.variant \in {"Float", "Double"} /\ dt.some -> ValueOf("Real", dt.payload)
      [] dt.variant = "Str" /\ dt.some -> ValueOf("Text", dt.payload)
      [] dt.variant = "Binary" /\ dt.some -> ValueOf("Blob", dt.payload)
      [] dt.variant = "Timestamp" /\ dt.some -> ValueOf("Text", dt.payload)
      [] OTHER -> ValueNull

\* params.iter().map(datatype_to_rusqlite_value).collect()
BindParams(params) == [i \in 1..Len(params) |-> datatype_to_rusqlite_value(params[i])]

ParamLists == UNION {[1..n -> DataTypes] : n \in 0..MaxParams}

\* SqlDefault::connect_with, open: a connection, no statement run yet
InitSql == sql = [op |-> "none", params |-> <<>>, bound |-> <<>>, outcome |-> "none"]

\* how a statement ends: conn.prepare fails, the engine fails to run the
\* statement, or it runs
StatementOutcomes == {"failed to prepare statement", "failed to execute", "ok"}

\* the values bound to the placeholders: none when prepare failed
Bound(params, outcome) ==
    IF outcome = "failed to prepare statement" THEN <<>> ELSE BindParams(params)

(***************************************************************************)
(* The messaging guest emitted by the guest! code generator                *)
(* (crates/guest-macro/src/messaging.rs): the declared topics in order,    *)
(* the ENV variable, and the handling of one delivered message.  Topic     *)
(* names are sequences of characters.                                      *)
(***************************************************************************)
MaxTopicLen == 4

TopicChars == {"a", "b", "e", "-"}
TopicNames == UNION {[1..n -> TopicChars] : n \in 0..MaxTopicLen}

\* the topic patterns a guest may declare, and the ordered declarations
Patterns == {<<"a">>, <<"b">>, <<"a", "b">>}
Declarations ==
    {<<p>> : p \in Patterns} \cup {<<p, q>> : <<p, q>> \in {pq \in Patterns \X Patterns : pq[1] # pq[2]}}

\* std::env::var("ENV").unwrap_or_default(): unset is the empty string
Environments == {<<>>, <<"e">>}

\* str::strip_prefix
IsPrefix(prefix, t) ==
    /\ Len(prefix) <= Len(t)
    /\ SubSeq(t, 1, Len(prefix)) = prefix
StripPrefix(t, prefix) ==
    IF IsPrefix(prefix, t)
    THEN [some |-> TRUE, rest |-> SubSeq(t, Len(prefix) + 1, Len(t))]
    ELSE [some |-> FALSE, rest |-> <<>>]

\* str::contains
StrContains(t, pattern) ==
    \E i \in 0..(Len(t) - Len(pattern)) : SubSeq(t, i + 1, i + Len(pattern)) = pattern

\* the match over the arms emitted by expand_topic, in declaration order: the
\* index of the first arm whose guard holds, 0 for the catch-all arm
FirstArm(topics, t) ==
    IF \E i \in 1..Len(topics) : StrContains(t, topics[i])
    THEN CHOOSE i \in 1..Len(topics) :
            /\ StrContains(t, topics[i])
            /\ \A j \in 1..(i - 1) : ~StrContains(t, topics[j])
    ELSE 0

\* the Result of Guest::handle and the handler it called, 0 for none
HandleErr(text) == [ok |-> FALSE, error |-> text, handler |-> 0]
Handled(arm, handler_ok) ==
    [ok |-> handler_ok, error |-> IF handler_ok THEN "" ELSE "handler error", handler |-> arm]
NotHandled == [ok |-> FALSE, error |-> "", handler |-> 0]

\* Guest::handle of the generated module
GuestHandle(topics, env, topic, handler_ok) ==
    LET stripped == StripPrefix(topic, env \o <<"-">>)
        arm == FirstArm(topics, stripped.rest)
    IN
    IF ~stripped.some THEN HandleErr("Incorrect environment")
    ELSE IF arm = 0 THEN HandleErr("Unhandled topic")
    ELSE Handled(arm, handler_ok)

\* before the guest is built
InitGuest == guest = [phase |-> "source", topics |-> <<>>, env |-> <<>>, topic |-> <<>>, result |-> NotHandled]

(***************************************************************************)
(* Initial state.                                                          *)
(***************************************************************************)
Pending == [ok |-> FALSE, control |-> DefaultControl, err |-> "pending"]

InitParse ==
    /\ headers = NoRequest
    /\ parsed = Pending

InitCache ==
    /\ now = 0
    /\ bucket = [k \in Keys |-> NoEntry]
    /\ last = [req |-> NoRequest, kind |-> "none", resp |-> NoResponse, read |-> FALSE,
               wrote |-> FALSE, net |-> FALSE, found |-> NotFound]

InitTable ==
    /\ table = EmptyTable
    /\ trapped = FALSE
    /\ res = NoResult

(***************************************************************************)
(* Spec: the outbound cache.                                               *)
(***************************************************************************)
\* the guest calls wasi_http::handle(request) and the upstream answers up
HandleCall(req, up) ==
    LET o == Handle(req, up, bucket, now) IN
    /\ bucket' = o.bucket
    /\ last' = [req |-> req, kind |-> o.kind, resp |-> o.resp, read |-> o.read,
                wrote |-> o.wrote, net |-> o.net, found |-> o.found]
    /\ UNCHANGED <<headers, parsed, now, table, trapped, res, serve, ident, stores, otel, send, pump, cap, errs, ws, boot, sql, guest>>

\* a caller builds a Cache from a request and calls Cache::put with a response
\* of its own
PutCall(req, response) ==
    LET mc == MaybeFrom(req) IN
    /\ mc.ok /\ mc.some
    /\ bucket' = CachePut(mc.control, response, bucket, now).bucket
    /\ UNCHANGED <<headers, parsed, now, last, table, trapped, res, serve, ident, stores, otel, send, pump, cap, errs, ws, boot, sql, guest>>

\* StateStore::set: a guest stores bytes of its own through the same
\* key-value cache API, in the bucket its CacheOptions name for the requests
StateSet(key, ttl) ==
    /\ bucket' = BucketSet(bucket, key, Garbage, ttl, now)
    /\ UNCHANGED <<headers, parsed, now, last, table, trapped, res, serve, ident, stores, otel, send, pump, cap, errs, ws, boot, sql, guest>>

\* a second passes
Tick ==
    /\ now < MaxTime
    /\ now' = now + 1
    /\ UNCHANGED <<headers, parsed, bucket, last, table, trapped, res, serve, ident, stores, otel, send, pump, cap, errs, ws, boot, sql, guest>>

Init == InitParse /\ InitCache /\ InitTable /\ InitServe /\ InitIdentity /\ InitStores /\ InitOtel /\ InitSend /\ InitPump /\ InitCapability /\ InitErrors /\ InitWebSocket /\ InitBoot /\ InitSql /\ InitGuest

Next ==
    \/ \E req \in HandleRequests, up \in Upstreams : HandleCall(req, up)
    \/ \E req \in HandleRequests, up \in {u \in Upstreams : u.ok} : PutCall(req, up.resp)
    \/ \E key \in {<<"a">>}, ttl \in 1..MaxAgeValue : StateSet(key, ttl)
    \/ Tick

Spec == Init /\ [][Next]_vars

(***************************************************************************)
(* ParseSpec: Control::try_from applied to every bounded header set.       *)
(***************************************************************************)
ParseInputs == [cc : CacheControlValues, inm : IfNoneMatchValues]

InitParseSpec ==
    /\ headers \in ParseInputs
    /\ parsed = Pending
    /\ InitCache
    /\ InitTable
    /\ InitServe
    /\ InitIdentity
    /\ InitStores
    /\ InitOtel
    /\ InitSend
    /\ InitPump
    /\ InitCapability
    /\ InitErrors
    /\ InitWebSocket
    /\ InitBoot
    /\ InitSql
    /\ InitGuest

\* Control::try_from(&headers)
ParseCall ==
    /\ parsed = Pending
    /\ parsed' = TryFrom(headers)
    /\ UNCHANGED <<headers, now, bucket, last, table, trapped, res, serve, ident, stores, otel, send, pump, cap, errs, ws, boot, sql, guest>>

NextParse == ParseCall

ParseSpec == InitParseSpec /\ [][NextParse]_vars

(***************************************************************************)
(* TableSpec: the host functions of the key-value and messaging            *)
(* capabilities acting on the resource table of one call.                  *)
(***************************************************************************)
\* State::store(): the next call starts with a store and a table of its own
StoreNew ==
    /\ table' = EmptyTable
    /\ trapped' = FALSE
    /\ res' = Result("store", 0, "ok", "", "")
    /\ UNCHANGED <<headers, parsed, now, bucket, last, serve, ident, stores, otel, send, pump, cap, errs, ws, boot, sql, guest>>

\* store::open(identifier); opened tells whether the backend opened the bucket
KvOpen(opened) ==
    /\ ~trapped
    /\ HasRoom(table)
    /\ IF opened
       THEN LET p == TablePush(table, BucketEntry) IN
            /\ table' = p.table
            /\ res' = Result("kv.open", p.rep, "ok", "", "")
       ELSE /\ table' = table
            /\ res' = Result("kv.open", 0, "error", "Other", "")
    /\ UNCHANGED <<headers, parsed, now, bucket, last, trapped, serve, ident, stores, otel, send, pump, cap, errs, ws, boot, sql, guest>>

\* get_bucket(accessor, &self_)
GetBucketOther(t, rep) ==
    LET g == TableGet(t, rep, "bucket") IN
    IF g.ok THEN [ok |-> TRUE, err |-> ""] ELSE [ok |-> FALSE, err |-> "Other"]

GetBucket(t, rep) ==
    LET g == TableGet(t, rep, "bucket") IN
    IF g.ok THEN [ok |-> TRUE, err |-> ""] ELSE [ok |-> FALSE, err |-> "NoSuchStore"]

\* bucket.get(self_, key); served tells whether the backend answered
KvGet(rep, served) ==
    LET b == GetBucket(table, rep) IN
    /\ ~trapped
    /\ res' = IF ~b.ok THEN Result("kv.get", rep, "error", b.err, "")
              ELSE IF ~served THEN Result("kv.get", rep, "error", "Other", "")
              ELSE Result("kv.get", rep, "ok", "", "")
    /\ UNCHANGED <<headers, parsed, now, bucket, last, table, trapped, serve, ident, stores, otel, send, pump, cap, errs, ws, boot, sql, guest>>

\* the drop of a resource of the given type: table.delete(rep), its error
\* returned as the wasmtime error of the host function
Drop(op, rep, kind) ==
    LET g == TableGet(table, rep, kind) IN
    /\ ~trapped
    /\ IF g.ok
       THEN /\ table' = TableFree(table, rep)
            /\ trapped' = FALSE
            /\ res' = Result(op, rep, "ok", "", "")
       ELSE /\ table' \in IF g.err = "WrongType"
                          THEN {table, TableFree(table, rep)}
                          ELSE {table}
            /\ trapped' = TRUE
            /\ res' = Result(op, rep, "trap", g.err, "")
    /\ UNCHANGED <<headers, parsed, now, bucket, last, serve, ident, stores, otel, send, pump, cap, errs, ws, boot, sql, guest>>

\* a drop that passes over an entry that is not there
KvDropLenient(rep) ==
    LET g == TableGet(table, rep, "bucket") IN
    /\ ~trapped
    /\ table' = IF g.ok THEN TableFree(table, rep) ELSE table
    /\ res' = Result("kv.drop", rep, "ok", "", "")
    /\ UNCHANGED <<headers, parsed, now, bucket, last, trapped, serve, ident, stores, otel, send, pump, cap, errs, ws, boot, sql, guest>>

\* bucket drop
KvDrop(rep) == Drop("kv.drop", rep, "bucket")

\* message::new(data)
MsgNew(data) ==
    /\ ~trapped
    /\ HasRoom(table)
    /\ LET p == TablePush(table, MessageEntry(data)) IN
       /\ table' = p.table
       /\ res' = Result("msg.new", p.rep, "ok", "", "")
    /\ UNCHANGED <<headers, parsed, now, bucket, last, trapped, serve, ident, stores, otel, send, pump, cap, errs, ws, boot, sql, guest>>

\* message.data(self_)
MsgData(rep) ==
    LET g == TableGet(table, rep, "message") IN
    /\ ~trapped
    /\ trapped' = ~g.ok
    /\ res' = IF g.ok THEN Result("msg.data", rep, "ok", "", g.val)
              ELSE Result("msg.data", rep, "trap", g.err, "")
    /\ UNCHANGED <<headers, parsed, now, bucket, last, table, serve, ident, stores, otel, send, pump, cap, errs, ws, boot, sql, guest>>

\* a mutator that writes the updated message over the one it was given
ReplaceInPlace(t, rep, e) == [t EXCEPT !.entries[rep + 1] = e]

\* store.table.push(updated_message), the handle of the push discarded
PushUpdated(t, rep, e) == TablePush(t, e).table

\* a mutating call on a message: table.get(&self_), the updated message
\* built from it, and its push
MsgMutate(op, rep, data, ct) ==
    LET g == TableGet(table, rep, "message")
        e == table.entries[rep + 1]
    IN
    /\ ~trapped
    /\ g.ok => HasRoom(table)
    /\ trapped' = ~g.ok
    /\ table' = IF ~g.ok THEN table
                ELSE IF op = "msg.set_data" THEN PushUpdated(table, rep, SetPayload(e, data))
                ELSE PushUpdated(table, rep, SetContentType(e, ct))
    /\ res' = IF g.ok THEN Result(op, rep, "ok", "", "")
              ELSE Result(op, rep, "trap", g.err, "")
    /\ UNCHANGED <<headers, parsed, now, bucket, last, serve, ident, stores, otel, send, pump, cap, errs, ws, boot, sql, guest>>

\* message.set_data(self_, data)
MsgSetData(rep, data) == MsgMutate("msg.set_data", rep, data, "")

\* message.set_content_type(self_, content_type)
MsgSetContentType(rep, ct) == MsgMutate("msg.set_content_type", rep, "", ct)

\* message drop
MsgDrop(rep) == Drop("msg.drop", rep, "message")

NextTable ==
    \/ StoreNew
    \/ \E opened \in BOOLEAN : KvOpen(opened)
    \/ \E rep \in Reps, served \in BOOLEAN : KvGet(rep, served)
    \/ \E rep \in Reps : KvDrop(rep)
    \/ \E data \in Payloads : MsgNew(data)
    \/ \E rep \in Reps : MsgData(rep)
    \/ \E rep \in Reps, data \in Payloads : MsgSetData(rep, data)
    \/ \E rep \in Reps, ct \in ContentTypes : MsgSetContentType(rep, ct)
    \/ \E rep \in Reps : MsgDrop(rep)

TableSpec == Init /\ [][NextTable]_vars

(***************************************************************************)
(* ServeSpec: the inbound HTTP server serving requests on one connection.  *)
(***************************************************************************)
\* the service function: Handler::handle up to the spawn of the guest task,
\* and internal_error() for its error; instantiated tells whether the guest
\* could be instantiated
Accept(req, instantiated) ==
    LET f == FixRequest(req) IN
    /\ serve.phase \in {"idle", "done"}
    /\ serve' = IF f.ok /\ instantiated
                THEN [serve EXCEPT !.phase = "guest", !.req = req, !.forwarded = TRUE,
                                   !.uri = f.uri, !.client = NothingReceived, !.total = 0,
                                   !.guest_error = FALSE, !.export = "none",
                                   !.logged = FALSE]
                ELSE [serve EXCEPT !.phase = "done", !.req = req, !.forwarded = FALSE,
                                   !.uri = NoUri, !.client = InternalError, !.total = 0,
                                   !.guest_error = FALSE, !.export = "none",
                                   !.logged = FALSE,
                                   !.errors = CountError(serve.errors, 500)]
    /\ UNCHANGED <<headers, parsed, now, bucket, last, table, trapped, res, ident, stores, otel, send, pump, cap, errs, ws, boot, sql, guest>>

\* tracing::export(span_data): its result for the guest and whether
\* convert_error logged an error
ExportResult(initialized, exported) ==
    IF ~initialized THEN [result |-> "ok", logged |-> FALSE]
    ELSE IF exported THEN [result |-> "ok", logged |-> FALSE]
    ELSE [result |-> "error", logged |-> TRUE]

\* the guest calls export(spans) while it handles the request
GuestExport(initialized, exported) ==
    LET e == ExportResult(initialized, exported) IN
    /\ serve.phase \in {"guest", "streaming"}
    /\ serve' = [serve EXCEPT !.export = e.result, !.logged = serve.logged \/ e.logged]
    /\ UNCHANGED <<headers, parsed, now, bucket, last, table, trapped, res, ident, stores, otel, send, pump, cap, errs, ws, boot, sql, guest>>

\* the guest returns an error code or traps before it has returned a response
GuestFails ==
    /\ serve.phase = "guest"
    /\ serve' = [serve EXCEPT !.phase = "done", !.guest_error = TRUE,
                              !.client = InternalError,
                              !.errors = CountError(serve.errors, 500)]
    /\ UNCHANGED <<headers, parsed, now, bucket, last, table, trapped, res, ident, stores, otel, send, pump, cap, errs, ws, boot, sql, guest>>

\* the guest returns its response: sender.send(http_resp), and the service
\* function hands the response to the connection
GuestResponds(status, total) ==
    /\ serve.phase = "guest"
    /\ serve' = [serve EXCEPT !.phase = "streaming", !.total = total,
                              !.client = Received(status, "guest", 0, FALSE),
                              !.errors = CountError(serve.errors, status)]
    /\ UNCHANGED <<headers, parsed, now, bucket, last, table, trapped, res, ident, stores, otel, send, pump, cap, errs, ws, boot, sql, guest>>

\* the guest task writes a chunk of the body, which the client receives
StreamChunk ==
    /\ serve.phase = "streaming"
    /\ serve.client.chunks < serve.total
    /\ serve' = [serve EXCEPT !.client.chunks = @ + 1]
    /\ UNCHANGED <<headers, parsed, now, bucket, last, table, trapped, res, ident, stores, otel, send, pump, cap, errs, ws, boot, sql, guest>>

\* task.block(store) ends: the body is whole
GuestCompletes ==
    /\ serve.phase = "streaming"
    /\ serve.client.chunks = serve.total
    /\ serve' = [serve EXCEPT !.phase = "done", !.client.complete = TRUE]
    /\ UNCHANGED <<headers, parsed, now, bucket, last, table, trapped, res, ident, stores, otel, send, pump, cap, errs, ws, boot, sql, guest>>

\* the guest traps while its task still writes the body
GuestTrapsStreaming ==
    /\ serve.phase = "streaming"
    /\ serve' = [serve EXCEPT !.phase = "done", !.guest_error = TRUE]
    /\ UNCHANGED <<headers, parsed, now, bucket, last, table, trapped, res, ident, stores, otel, send, pump, cap, errs, ws, boot, sql, guest>>

NextServe ==
    \/ \E req \in InboundRequests, instantiated \in BOOLEAN : Accept(req, instantiated)
    \/ \E initialized \in BOOLEAN, exported \in BOOLEAN : GuestExport(initialized, exported)
    \/ GuestFails
    \/ \E status \in {200, 502}, total \in 0..MaxChunks : GuestResponds(status, total)
    \/ StreamChunk
    \/ GuestCompletes
    \/ GuestTrapsStreaming

ServeSpec == Init /\ [][NextServe]_vars

(***************************************************************************)
(* IdentitySpec: get_token calls on one token manager.                     *)
(***************************************************************************)
Others == <<headers, parsed, now, bucket, last, table, trapped, res, serve, stores, otel, send, pump, cap, errs, ws, boot, sql, guest>>

\* what a call that has just returned leaves for the next one
Returned(result, cache, exchanged) ==
    IF result.ok
    THEN [token |-> result.val, until |-> cache.expires_at, exchanged |-> exchanged, ok |-> TRUE]
    ELSE NoPrevious

\* get_token(CallerScopes[c]), then TokenManager::token, entry: read the clock,
\* lock, return the cached token if it is still valid, whatever scope list it
\* was requested with, else go on to fetch a new one
Start(c) ==
    LET follows == /\ InFlight = {}
                   /\ ident.prev.ok
                   /\ ident.prev.exchanged
                   /\ ident.clock < ident.prev.until
        call == [IdleCall EXCEPT !.now = ident.clock, !.follows = follows,
                                 !.first = ident.prev.token]
    IN
    /\ ident.calls[c].pc \in {"idle", "done"}
    /\ IF CacheValid(ident.cache, ident.clock)
       THEN LET r == TokenOk(ident.cache.access_token.token) IN
            ident' = [ident EXCEPT !.calls[c] = [call EXCEPT !.pc = "done", !.result = r],
                                   !.prev = Returned(r, ident.cache, FALSE)]
       ELSE ident' = [ident EXCEPT !.calls[c] = [call EXCEPT !.pc = "exchange"]]
    /\ UNCHANGED Others

\* the client-credentials exchange for the scope list of the call, made
\* without the lock: it answers with a token, or fails and ends the call
Exchange(c, answered, token, expires_in) ==
    /\ ident.calls[c].pc = "exchange"
    /\ IF answered
       THEN ident' = [ident EXCEPT !.calls[c].pc = "recheck",
                                   !.calls[c].exchanged = TRUE,
                                   !.calls[c].fetched = AccessToken(token, expires_in)]
       ELSE ident' = [ident EXCEPT !.calls[c].pc = "done",
                                   !.calls[c].exchanged = TRUE,
                                   !.calls[c].result = TokenErr,
                                   !.prev = NoPrevious]
    /\ UNCHANGED Others

\* lock again, replace the cache if it is still expired for this call, and
\* return the token the cache holds
Recheck(c) ==
    LET call == ident.calls[c]
        cache == IF ident.cache.expires_at <= call.now
                 THEN CachedTokenNew(call.fetched, ident.clock)
                 ELSE ident.cache
        granted == IF ident.cache.expires_at <= call.now THEN CallerScopes[c] ELSE ident.granted
        r == TokenOk(cache.access_token.token)
    IN
    /\ call.pc = "recheck"
    /\ ident' = [ident EXCEPT !.cache = cache,
                              !.granted = granted,
                              !.calls[c].pc = "done",
                              !.calls[c].result = r,
                              !.prev = Returned(r, cache, TRUE)]
    /\ UNCHANGED Others

\* time passes
Advance ==
    /\ ident.clock < MaxClock
    /\ ident' = [ident EXCEPT !.clock = @ + 1]
    /\ UNCHANGED Others

NextIdentity ==
    \/ \E c \in Calls : Start(c)
    \/ \E c \in Calls, answered \in BOOLEAN, token \in Tokens, expires_in \in 0..MaxTtl :
          Exchange(c, answered, token, expires_in)
    \/ \E c \in Calls : Recheck(c)
    \/ Advance

IdentitySpec == Init /\ [][NextIdentity]_vars

(***************************************************************************)
(* StoresSpec: calls in progress, each with its store, creating, using and *)
(* dropping handles.                                                       *)
(***************************************************************************)
Rest == <<headers, parsed, now, bucket, last, table, trapped, res, serve, ident, otel, send, pump, cap, errs, ws, boot, sql, guest>>

\* State::store() and Store::new at the start of a call
StoreOpen(s) ==
    /\ stores.state[s] = "none"
    /\ stores' = [stores EXCEPT !.state[s] = "running",
                                !.tab[s] = StoreTable(stores.tab, s),
                                !.issued[s] = {},
                                !.res = StoreResult(s, "store", 0, "ok", 0)]
    /\ UNCHANGED Rest

\* open, get_identity, get_server: table.push(proxy)
HandleNew(s, kind) ==
    LET id == stores.made + 1
        p == TablePush(stores.tab[s], ObjectEntry(kind, id))
    IN
    /\ stores.state[s] = "running"
    /\ stores.made < MaxObjects
    /\ HasRoom(stores.tab[s])
    /\ stores' = [stores EXCEPT !.tab[s] = p.table,
                                !.made = id,
                                !.owner[id] = s,
                                !.issued[s] = @ \cup {<<p.rep, id>>},
                                !.res = StoreResult(s, "new", p.rep, "ok", id)]
    /\ UNCHANGED Rest

\* the object behind an entry
ObjectAt(t, rep) == CHOOSE id \in Objects : t.entries[rep + 1].val = ToString(id)

\* a method on a handle: table.get(&self_) in the store of the call
HandleUse(s, rep, kind) ==
    LET g == TableGet(stores.tab[s], rep, kind) IN
    /\ stores.state[s] = "running"
    /\ stores' = [stores EXCEPT !.res =
                     IF g.ok THEN StoreResult(s, "use", rep, "ok", ObjectAt(stores.tab[s], rep))
                     ELSE StoreResult(s, "use", rep, "failed", 0)]
    /\ UNCHANGED Rest

\* drop of a handle: table.delete(rep) for a bucket and an identity, its
\* error ending the guest; nothing for a websockets server
HandleDrop(s, rep, kind) ==
    LET t == stores.tab[s]
        g == TableGet(t, rep, kind)
    IN
    /\ stores.state[s] = "running"
    /\ IF kind = "server"
       THEN stores' = [stores EXCEPT !.res =
                          StoreResult(s, "drop", rep, "ok",
                                      IF g.ok THEN ObjectAt(t, rep) ELSE 0)]
       ELSE IF g.ok
       THEN stores' = [stores EXCEPT !.tab[s] = TableFree(t, rep),
                                     !.drops = Dropped(stores.drops, {ObjectAt(t, rep)}),
                                     !.explicit = @ \cup {ObjectAt(t, rep)},
                                     !.res = StoreResult(s, "drop", rep, "ok", ObjectAt(t, rep))]
       ELSE \/ stores' = [stores EXCEPT !.state[s] = "trapped",
                                        !.res = StoreResult(s, "drop", rep, "trap", 0)]
            \/ /\ g.err = "WrongType"
               /\ stores' = [stores EXCEPT !.state[s] = "trapped",
                                           !.tab[s] = TableFree(t, rep),
                                           !.drops = Dropped(stores.drops, {ObjectAt(t, rep)}),
                                           !.res = StoreResult(s, "drop", rep, "trap", 0)]
    /\ UNCHANGED Rest

\* the call ends, with a result, an error or a trap, and its store is
\* dropped with the table and every entry left in it
StoreDrop(s, ended) ==
    /\ \/ stores.state[s] = "running" /\ ended \in {"ok", "error"}
       \/ stores.state[s] = "trapped" /\ ended = "trap"
    /\ stores' = [stores EXCEPT !.state[s] = "none",
                                !.tab[s] = EmptyTable,
                                !.issued[s] = {},
                                !.drops = Dropped(stores.drops, ObjectsIn(stores.tab[s])),
                                !.res = StoreResult(s, "store.drop", 0, ended,
                                                    Cardinality(ObjectsIn(stores.tab[s])))]
    /\ UNCHANGED Rest

NextStores ==
    \/ \E s \in StoreIds : StoreOpen(s)
    \/ \E s \in StoreIds, kind \in HandleKinds : HandleNew(s, kind)
    \/ \E s \in StoreIds, rep \in Reps, kind \in HandleKinds : HandleUse(s, rep, kind)
    \/ \E s \in StoreIds, rep \in Reps, kind \in HandleKinds : HandleDrop(s, rep, kind)
    \/ \E s \in StoreIds, ended \in {"ok", "error", "trap"} : StoreDrop(s, ended)

StoresSpec == Init /\ [][NextStores]_vars

(***************************************************************************)
(* OtelSpec: host spans are entered and left, and the guest exports        *)
(* batches of spans.                                                       *)
(***************************************************************************)
OtelFrame == <<headers, parsed, now, bucket, last, table, trapped, res, serve, ident, stores, send, pump, cap, errs, ws, boot, sql, guest>>

\* a host span becomes the current span
HostSpanEnter(span) ==
    /\ otel' = [otel EXCEPT !.host = span]
    /\ UNCHANGED OtelFrame

\* the current host span is left
HostSpanExit ==
    /\ otel.host.active
    /\ otel' = [otel EXCEPT !.host = NoHostSpan]
    /\ UNCHANGED OtelFrame

\* tracing::export(span_data); initialized tells whether the telemetry
\* resource is set, exported whether the provider exported the request
ExportSpans(batch, initialized, exported, order) ==
    LET spans == [i \in 1..Len(batch) |-> SetParent(batch[i], otel.host)] IN
    /\ otel' = [otel EXCEPT !.export =
                   [batch |-> batch,
                    at |-> otel.host,
                    sent |-> IF initialized /\ exported
                             THEN ResourceSpans(spans, order) ELSE <<>>,
                    result |-> ExportResult(initialized, exported).result]]
    /\ UNCHANGED OtelFrame

NextOtel ==
    \/ \E span \in HostSpans : HostSpanEnter(span)
    \/ HostSpanExit
    \/ \E batch \in Batches, initialized \in BOOLEAN, exported \in BOOLEAN :
          \E order \in ScopeOrders(ScopesOf(batch)) :
             ExportSpans(batch, initialized, exported, order)

OtelSpec == Init /\ [][NextOtel]_vars

(***************************************************************************)
(* SendSpec: outbound requests sent one after another through              *)
(* HttpDefault::send_request.                                              *)
(***************************************************************************)
SendFrame == <<headers, parsed, now, bucket, last, table, trapped, res, serve, ident, stores, otel, pump, cap, errs, ws, boot, sql, guest>>

\* send_request up to client.request(..).send(): the Host headers are
\* deduplicated, the client certificate is read, the body is collected and
\* the request goes to the upstream; _options is not read.  A call keeps
\* nothing for the next one, so a behaviour follows one call
SendRequest(req) ==
    /\ send.phase = "idle"
    /\ send' = IF req.cert = "invalid" \/ ~req.collected
               THEN [phase |-> "done", req |-> req, elapsed |-> 0,
                     upstream |-> [sent |-> FALSE, hosts |-> <<>>, headers |-> <<>>],
                     result |-> SendResult("error", "InternalError", <<>>)]
               ELSE [phase |-> "waiting", req |-> req, elapsed |-> 0,
                     upstream |-> [sent |-> TRUE, hosts |-> DedupeHosts(req.hosts),
                                   headers |-> <<>>],
                     result |-> NoSendResult]
    /\ UNCHANGED SendFrame

\* a second passes while send().await is pending
Elapse ==
    /\ send.phase = "waiting"
    /\ send.elapsed < MaxElapsed
    /\ send' = [send EXCEPT !.elapsed = @ + 1]
    /\ UNCHANGED SendFrame

\* the upstream answers: the response goes back without the forbidden headers
UpstreamResponds(hs) ==
    /\ send.phase = "waiting"
    /\ send' = [send EXCEPT !.phase = "done",
                            !.upstream.headers = hs,
                            !.result = SendResult("response", "", RemoveForbidden(hs, 1))]
    /\ UNCHANGED SendFrame

\* send() fails with a reqwest error
UpstreamFails(e) ==
    /\ send.phase = "waiting"
    /\ send' = [send EXCEPT !.phase = "done",
                            !.result = SendResult("error", ReqwestErr(e), <<>>)]
    /\ UNCHANGED SendFrame

NextSend ==
    \/ \E req \in OutboundRequests : SendRequest(req)
    \/ Elapse
    \/ \E hs \in UpstreamHeaders : UpstreamResponds(hs)
    \/ \E e \in ReqwestErrors : UpstreamFails(e)

SendSpec == Init /\ [][NextSend]_vars

(***************************************************************************)
(* Actions of the messaging pump (PumpSpec).                               *)
(***************************************************************************)
PumpFrame == <<headers, parsed, now, bucket, last, table, trapped, res, serve, ident, stores, otel, send, cap, errs, ws, boot, sql, guest>>

\* stream.next() yields the next message: a task is spawned for it and the
\* loop goes back to the stream without waiting for the task
Dispatch(m) ==
    /\ pump.open
    /\ pump.task[m] = "queued"
    /\ \A k \in Messages : k < m => pump.task[k] # "queued"
    /\ pump' = [pump EXCEPT !.task[m] = "running",
                            !.message_counter = @ + 1]
    /\ UNCHANGED PumpFrame

\* the spawned task's handler.handle(message).await returns
TaskEnds(m, outcome) ==
    /\ pump.task[m] = "running"
    /\ pump' = [pump EXCEPT !.task[m] = outcome,
                            !.processing_errors =
                                IF HandleResult(outcome) = "Err" THEN @ + 1 ELSE @]
    /\ UNCHANGED PumpFrame

\* the subscription stream ends: run returns Ok(())
StreamEnds ==
    /\ pump.open
    /\ pump' = [pump EXCEPT !.open = FALSE]
    /\ UNCHANGED PumpFrame

NextPump ==
    \/ \E m \in Messages : Dispatch(m)
    \/ \E m \in Messages, outcome \in HandleOutcomes : TaskEnds(m, outcome)
    \/ StreamEnds

PumpSpec == Init /\ [][NextPump]_vars

(***************************************************************************)
(* Actions of the capability calls (CapabilitySpec).                       *)
(***************************************************************************)
CapabilityFrame == <<headers, parsed, now, bucket, last, table, trapped, res, serve, ident, stores, otel, send, pump, errs, ws, boot, sql, guest>>

\* bucket.set(key, value) by a guest before any increment: the key holds
\* the 8 bytes of v
KeySet(v) ==
    /\ \A c \in Callers : cap.calls[c].pc = "idle"
    /\ cap.value # SomeValue(ToBeBytes(v))
    /\ cap' = [cap EXCEPT !.value = SomeValue(ToBeBytes(v)), !.base = v]
    /\ UNCHANGED CapabilityFrame

\* increment up to bucket.get(key).await: without a value the call returns
\* Err("no value for {key}") and the bucket is left as it was
IncrementGet(c, delta) ==
    /\ cap.calls[c].pc = "idle"
    /\ cap' = [cap EXCEPT !.calls[c] =
                   IF cap.value.some
                   THEN [pc |-> "read", delta |-> delta, value |-> cap.value,
                         result |-> NoTyped]
                   ELSE [pc |-> "done", delta |-> delta, value |-> NoValue,
                         result |-> TypedErr("no value")]]
    /\ UNCHANGED CapabilityFrame

\* increment from the decoding of the value it read to Ok(inc)
IncrementSet(c) ==
    /\ cap.calls[c].pc = "read"
    /\ LET call == cap.calls[c]
           inc == FromBeBytes(CopyToBuf(call.value.bytes)) + call.delta
       IN  cap' = [cap EXCEPT !.value = SomeValue(ToBeBytes(inc)),
                              !.calls[c] = [call EXCEPT !.pc = "done",
                                                        !.result = TypedOk(inc)]]
    /\ UNCHANGED CapabilityFrame

\* Cas::new on a valid bucket handle
CasNew ==
    /\ cap.guest = "running"
    /\ ~cap.cas
    /\ cap' = [cap EXCEPT !.cas = TRUE, !.last = TypedOk(0)]
    /\ UNCHANGED CapabilityFrame

\* swap on a valid CAS handle: the host function returns a wasmtime error
Swap ==
    /\ cap.guest = "running"
    /\ cap.cas
    /\ cap' = [cap EXCEPT !.guest = "trapped",
                           !.last = [kind |-> "trap", val |-> "not implemented"]]
    /\ UNCHANGED CapabilityFrame

\* copy_object and move_object: unimplemented!()
CopyObject ==
    /\ cap.guest = "running"
    /\ cap' = [cap EXCEPT !.guest = "panicked",
                           !.last = [kind |-> "panic", val |-> "copy_object not implemented yet"]]
    /\ UNCHANGED CapabilityFrame

MoveObject ==
    /\ cap.guest = "running"
    /\ cap' = [cap EXCEPT !.guest = "panicked",
                           !.last = [kind |-> "panic", val |-> "move_object not implemented yet"]]
    /\ UNCHANGED CapabilityFrame

NextCapability ==
    \/ \E v \in 0..MaxStored : KeySet(v)
    \/ \E c \in Callers, delta \in Deltas : IncrementGet(c, delta)
    \/ \E c \in Callers : IncrementSet(c)
    \/ CasNew
    \/ Swap
    \/ CopyObject
    \/ MoveObject

CapabilitySpec == Init /\ [][NextCapability]_vars

(***************************************************************************)
(* Actions of the guest error handling (ErrorSpec).                        *)
(***************************************************************************)
ErrorFrame == <<headers, parsed, now, bucket, last, table, trapped, res, serve, ident, stores, otel, send, pump, cap, ws, boot, sql, guest>>

\* the handler is still working on the error
Handling ==
    /\ errs.root # NoError
    /\ errs.converted = NoError
    /\ ~errs.response.some

\* Err(bad_request!(..)) and the like
Raise(e) ==
    /\ errs.root = NoError
    /\ errs' = [errs EXCEPT !.root = e]
    /\ UNCHANGED ErrorFrame

\* Err(anyhow!(..))
RaiseOneOff(msg) ==
    /\ errs.root = NoError
    /\ errs' = [errs EXCEPT !.root = OneOff(msg), !.wrapped = TRUE]
    /\ UNCHANGED ErrorFrame

\* anyhow::Error::from(e), as `?` does in a function returning anyhow::Result
Wrap ==
    /\ Handling
    /\ ~errs.wrapped
    /\ errs' = [errs EXCEPT !.wrapped = TRUE]
    /\ UNCHANGED ErrorFrame

\* .context(text)
Context(text) ==
    /\ Handling
    /\ Len(errs.layers) < MaxLayers
    /\ errs' = [errs EXCEPT !.layers = <<text>> \o @, !.wrapped = TRUE]
    /\ UNCHANGED ErrorFrame

\* Error::from(anyhow_error), as `?` does in a function returning Result<_, Error>
IntoError ==
    /\ Handling
    /\ errs.wrapped
    /\ errs' = [errs EXCEPT !.converted = FromAnyhow(AnyhowError(errs.root, errs.layers))]
    /\ UNCHANGED ErrorFrame

\* the handler returns the error and it becomes the response
IntoHttpError ==
    /\ errs.root # NoError
    /\ ~errs.response.some
    /\ errs' = [errs EXCEPT !.response =
                   IF errs.converted # NoError THEN HttpFromError(errs.converted)
                   ELSE IF errs.wrapped
                        THEN HttpFromAnyhow(AnyhowError(errs.root, errs.layers))
                        ELSE HttpFromError(errs.root)]
    /\ UNCHANGED ErrorFrame

NextErrors ==
    \/ \E e \in TypedErrors : Raise(e)
    \/ \E msg \in Descriptions : RaiseOneOff(msg)
    \/ Wrap
    \/ \E text \in ContextTexts : Context(text)
    \/ IntoError
    \/ IntoHttpError

ErrorSpec == Init /\ [][NextErrors]_vars

(***************************************************************************)
(* Actions of the WebSocket backend and server (WebSocketSpec).            *)
(***************************************************************************)
WebSocketFrame == <<headers, parsed, now, bucket, last, table, trapped, res, serve, ident, stores, otel, send, pump, cap, errs, boot, sql, guest>>

\* listen: a connection is accepted and its task spawned; after the
\* handshake the task is in handle_socket
SocketAccept(s) ==
    /\ ws.task[s] = "none"
    /\ ws' = [ws EXCEPT !.task[s] = "accepted"]
    /\ UNCHANGED WebSocketFrame

\* add_socket: if self.connections.len() >= MAX_CONNECTIONS { return Err }
SocketCheck(s) ==
    /\ ws.task[s] = "accepted"
    /\ ws' = [ws EXCEPT !.task[s] =
                 IF Cardinality(ws.connections) >= MAX_CONNECTIONS
                 THEN "refused" ELSE "checked"]
    /\ UNCHANGED WebSocketFrame

\* add_socket: self.connections.insert(socket_addr, tx)
SocketInsert(s) ==
    /\ ws.task[s] = "checked"
    /\ ws' = [ws EXCEPT !.task[s] = "open", !.connections = @ \cup {s}]
    /\ UNCHANGED WebSocketFrame

\* a text or binary message of a client: send_to_guest broadcasts the
\* event, which reaches the subscriptions that exist at that moment; early
\* counts the messages that came before run started
ClientMessage(s) ==
    /\ ws.task[s] = "open"
    /\ ws.sent < MaxEvents
    /\ ws' = [ws EXCEPT !.sent = @ + 1,
                        !.early = IF ws.running THEN @ ELSE @ + 1,
                        !.queue = IF ws.subscribed THEN Append(@, ws.sent + 1) ELSE @]
    /\ UNCHANGED WebSocketFrame

\* the client closes or fails: handle_socket removes the connection
SocketClose(s) ==
    /\ ws.task[s] = "open"
    /\ ws' = [ws EXCEPT !.task[s] = "closed", !.connections = @ \ {s}]
    /\ UNCHANGED WebSocketFrame

\* run: handler.events().await? connects a client and resubscribes: a new
\* subscription that starts empty
Subscribe ==
    /\ ~ws.subscribed
    /\ ws' = [ws EXCEPT !.running = TRUE, !.subscribed = TRUE, !.queue = <<>>]
    /\ UNCHANGED WebSocketFrame

\* run: .next().await yields one event, whose handler task is spawned; the
\* stream is a temporary of the loop condition and is dropped with
\* whatever it still holds
TakeEvent ==
    /\ ws.subscribed
    /\ ws.queue # <<>>
    /\ ws' = [ws EXCEPT !.handled = Append(@, Head(ws.queue)),
                        !.subscribed = FALSE,
                        !.queue = <<>>]
    /\ UNCHANGED WebSocketFrame

NextWebSocket ==
    \/ \E s \in Sockets : SocketAccept(s)
    \/ \E s \in Sockets : SocketCheck(s)
    \/ \E s \in Sockets : SocketInsert(s)
    \/ \E s \in Sockets : ClientMessage(s)
    \/ \E s \in Sockets : SocketClose(s)
    \/ Subscribe
    \/ TakeEvent

WebSocketSpec == Init /\ [][NextWebSocket]_vars

(***************************************************************************)
(* Actions of the runtime startup (BootSpec).                              *)
(***************************************************************************)
BootFrame == <<headers, parsed, now, bucket, last, table, trapped, res, serve, ident, stores, otel, send, pump, cap, errs, ws, sql, guest>>

\* omnia::create(&wasm)? for the runtime of a configuration
Create(hosts, ok) ==
    /\ boot.phase = "create"
    /\ boot' = [boot EXCEPT !.phase = IF ok THEN "link" ELSE "aborted", !.hosts = hosts]
    /\ UNCHANGED BootFrame

\* compiled.link(host)?, one host after the other
Link(ok) ==
    /\ boot.phase = "link"
    /\ boot.linked < Len(boot.hosts)
    /\ boot' = IF ok THEN [boot EXCEPT !.linked = @ + 1]
               ELSE [boot EXCEPT !.phase = "aborted"]
    /\ UNCHANGED BootFrame

\* compiled.pre_instantiate()?
PreInstantiate(ok) ==
    /\ boot.phase = "link"
    /\ boot.linked = Len(boot.hosts)
    /\ boot' = [boot EXCEPT !.phase = IF ok THEN "connect" ELSE "aborted"]
    /\ UNCHANGED BootFrame

\* Backend::connect().await?, one backend after the other; the WebSocket
\* backend's connect_with spawns its listener task and returns Ok
Connect(ok) ==
    /\ boot.phase = "connect"
    /\ boot.connected < Len(boot.hosts)
    /\ LET host == boot.hosts[boot.connected + 1] IN
       boot' = IF host = "websocket"
               THEN [boot EXCEPT !.connected = @ + 1, !.listener = "spawned"]
               ELSE IF ok THEN [boot EXCEPT !.connected = @ + 1]
               ELSE [boot EXCEPT !.phase = "aborted"]
    /\ UNCHANGED BootFrame

\* the listener task: TcpListener::bind(socket_addr).await?; an error is
\* logged by the task and goes nowhere else
ListenerBind(ok) ==
    /\ boot.phase # "aborted"
    /\ boot.listener = "spawned"
    /\ boot' = [boot EXCEPT !.listener = IF ok THEN "listening" ELSE "failed"]
    /\ UNCHANGED BootFrame

\* the listener task accepts a client connection and spawns its socket task
ListenerAccept ==
    /\ boot.phase # "aborted"
    /\ boot.listener = "listening"
    /\ boot.accepted < MaxDispatched
    /\ boot' = [boot EXCEPT !.accepted = @ + 1]
    /\ UNCHANGED BootFrame

\* run_state.start(): every server's run future is polled
StartServers ==
    /\ boot.phase = "connect"
    /\ boot.connected = Len(boot.hosts)
    /\ boot' = [boot EXCEPT !.phase = "running"]
    /\ UNCHANGED BootFrame

\* a running server takes a request, message or event and instantiates the
\* guest for it
ServerDispatch ==
    /\ boot.phase = "running"
    /\ boot.instances < MaxDispatched
    /\ boot' = [boot EXCEPT !.instances = @ + 1]
    /\ UNCHANGED BootFrame

NextBoot ==
    \/ \E hosts \in Configurations, ok \in BOOLEAN : Create(hosts, ok)
    \/ \E ok \in BOOLEAN : Link(ok)
    \/ \E ok \in BOOLEAN : PreInstantiate(ok)
    \/ \E ok \in BOOLEAN : Connect(ok)
    \/ \E ok \in BOOLEAN : ListenerBind(ok)
    \/ ListenerAccept
    \/ StartServers
    \/ ServerDispatch

BootSpec == Init /\ [][NextBoot]_vars

(***************************************************************************)
(* SqlSpec: statements run on one connection with bounded parameter lists. *)
(***************************************************************************)
SqlFrame == <<headers, parsed, now, bucket, last, table, trapped, res, serve, ident, stores, otel, send, pump, cap, errs, ws, boot, guest>>

\* SqliteConnectionImpl::query: prepare, convert the parameters, bind them
\* and run the statement; the engine answers with rows or fails.  A behaviour
\* follows one statement on the connection.
Query(params, outcome) ==
    /\ sql.op = "none"
    /\ sql' = [op |-> "query", params |-> params, bound |-> Bound(params, outcome), outcome |-> outcome]
    /\ UNCHANGED SqlFrame

\* SqliteConnectionImpl::exec: prepare, convert the parameters, bind them and
\* execute the statement; the engine answers with a row count or fails
Exec(params, outcome) ==
    /\ sql.op = "none"
    /\ sql' = [op |-> "exec", params |-> params, bound |-> Bound(params, outcome), outcome |-> outcome]
    /\ UNCHANGED SqlFrame

NextSql ==
    \/ \E params \in ParamLists, outcome \in StatementOutcomes : Query(params, outcome)
    \/ \E params \in ParamLists, outcome \in StatementOutcomes : Exec(params, outcome)

SqlSpec == Init /\ [][NextSql]_vars

(***************************************************************************)
(* GuestSpec: a guest is built from its declarations and started in an     *)
(* environment, then handles one delivered message.                        *)
(***************************************************************************)
GuestFrame == <<headers, parsed, now, bucket, last, table, trapped, res, serve, ident, stores, otel, send, pump, cap, errs, ws, boot, sql>>

\* expand: the guest! macro emits one match arm per declared topic, in the
\* order of the declaration; the component then runs with ENV set or unset
Expand(topics, env) ==
    /\ guest.phase = "source"
    /\ guest' = [guest EXCEPT !.phase = "built", !.topics = topics, !.env = env]
    /\ UNCHANGED GuestFrame

\* Guest::handle(message) for a message delivered on a topic
HandleMessage(topic, handler_ok) ==
    /\ guest.phase = "built"
    /\ guest' = [guest EXCEPT !.phase = "handled", !.topic = topic,
                              !.result = GuestHandle(guest.topics, guest.env, topic, handler_ok)]
    /\ UNCHANGED GuestFrame

NextGuest ==
    \/ \E topics \in Declarations, env \in Environments : Expand(topics, env)
    \/ \E topic \in TopicNames, handler_ok \in BOOLEAN : HandleMessage(topic, handler_ok)

GuestSpec == Init /\ [][NextGuest]_vars

Parsed == parsed # Pending

\* the directive d is among the header's directives
HasDirective(cc, d) == cc.p = "text" /\ \E i \in 1..Len(cc.s) : cc.s[i].d = d

\* a max-age directive with a value above zero is among the header's directives
HasPositiveMaxAge(cc) ==
    cc.p = "text" /\ \E i \in 1..Len(cc.s) : cc.s[i].d = "max-age" /\ cc.s[i].v > 0

\* If-None-Match is present, non-empty, single-valued and not weak
StrongEtag(inm) ==
    /\ inm.p = "text"
    /\ inm.s # <<>>
    /\ ~Contains(inm.s, ",")
    /\ ~StartsWith(inm.s, <<"W", "/">>)

(***************************************************************************)
(* Claims about the directive parser (ParseSpec).                          *)
(***************************************************************************)
\* C2: whenever the parser accepts a Cache-Control header whose state is not
\* no-store (no-cache on its own included), If-None-Match is present,
\* non-empty, single-valued and not weak.
C2_EtagRequiredUnlessNoStore ==
    (Parsed /\ headers.cc.p # "absent" /\ parsed.ok /\ ~parsed.control.no_store)
        => StrongEtag(headers.inm)

\* C8: every Cache-Control value that holds no-store together with no-cache or
\* with a max-age above zero, in whichever order, is rejected.
C8_NoStoreExclusive ==
    (Parsed /\ HasDirective(headers.cc, "no-store")
            /\ (HasDirective(headers.cc, "no-cache") \/ HasPositiveMaxAge(headers.cc)))
        => ~parsed.ok

(***************************************************************************)
(* Claims about handles (TableSpec).                                       *)
(***************************************************************************)
\* the handle does not resolve to a resource of the given type
Absent(rep, kind) == ~TableGet(table, rep, kind).ok

\* the host function called with rep is a bucket method
BucketMethodCall(rep) == \E served \in BOOLEAN : KvGet(rep, served)

\* the host function called with rep is a message method
MessageMethodCall(rep) ==
    \/ MsgData(rep)
    \/ \E data \in Payloads : MsgSetData(rep, data)
    \/ \E ct \in ContentTypes : MsgSetContentType(rep, ct)

DroppedBefore == res.rep < Len(table.entries) /\ table.entries[res.rep + 1].kind = "free"

Served == serve.phase = "done"

\* C17: when the guest fails while the request is handled, the client has the
\* fixed 500 page, whole, and no other response.
C17_GuestErrorGivesFixedPage ==
    (Served /\ serve.guest_error) => serve.client = InternalError

\* C18: a request with neither a Forwarded nor a Host header is answered with
\* status 400.
C18_MissingHostRejected400 ==
    (Served /\ serve.req.forwarded.p = "absent" /\ serve.req.host.p = "absent")
        => serve.client.status = 400

\* the values the Forwarded header gives for the key k
ForwardedGives(req, k) ==
    IF req.forwarded.p # "text" THEN {}
    ELSE {req.forwarded.s[i].v : i \in {j \in 1..Len(req.forwarded.s) : req.forwarded.s[j].k = k}}

\* C19: the URI forwarded to the guest has a scheme and an authority: those of
\* the Forwarded header when it gives host= and proto=, otherwise the Host
\* header value and http.
C19_UriExplicit ==
    serve.forwarded =>
        /\ serve.uri.scheme # NoPart
        /\ serve.uri.authority # NoPart
        /\ IF ForwardedGives(serve.req, "host") # {} /\ ForwardedGives(serve.req, "proto") # {}
           THEN /\ serve.uri.authority \in ForwardedGives(serve.req, "host")
                /\ serve.uri.scheme \in ForwardedGives(serve.req, "proto")
           ELSE /\ serve.uri.authority = serve.req.host.s
                /\ serve.uri.scheme = <<"http">>

\* C20: when the exporter fails during export(spans), the failure is
\* logged, the call returns success to the guest and the request goes on.
C20_ExportFailureReturnsOk ==
    [][GuestExport(TRUE, FALSE)
        => /\ serve'.export = "ok"
           /\ serve'.logged
           /\ serve'.phase = serve.phase]_vars

\* the call inserted e at an index that was free, and kept every entry
InsertedBeside(rep, e) ==
    /\ res'.outcome = "ok"
    /\ ~trapped'
    /\ \E n \in Reps \ {rep} :
          /\ ~Occupied(table, n)
          /\ Occupied(table', n)
          /\ table'.entries[n + 1] = e
          /\ \A m \in Reps \ {n} : Occupied(table, m) =>
                /\ Occupied(table', m)
                /\ table'.entries[m + 1] = table.entries[m + 1]

Live(id) ==
    /\ id <= stores.made
    /\ stores.state[stores.owner[id]] # "none"
    /\ id \in ObjectsIn(stores.tab[stores.owner[id]])

\* C11: an object pushed into the table of a store is dropped once: not while
\* it is in the table of its store, and exactly once from its explicit drop
\* or from the drop of the store on, however the call ended.
C11_DroppedExactlyOnce ==
    \A id \in Objects :
        stores.drops[id] = IF id > stores.made \/ Live(id) THEN 0 ELSE 1

C11_Witness ==
    /\ stores.res.op = "store.drop"
    /\ stores.res.outcome = "trap"
    /\ stores.res.obj >= 1
    /\ stores.made = MaxObjects
    /\ stores.explicit # {}
    /\ \A id \in Objects : stores.owner[id] = stores.res.store /\ stores.drops[id] = 1

\* C12 as stated: two handles returned in one store are different or refer to
\* the same object, and no handle returned in one store resolves to an object
\* in another store.
C12_HandlesNeverShared ==
    \A s \in StoreIds :
        /\ \A h1 \in stores.issued[s], h2 \in stores.issued[s] :
              h1[1] = h2[1] => h1[2] = h2[2]
        /\ \A h \in stores.issued[s], o \in StoreIds \ {s} : ~Occupied(stores.tab[o], h[1])

\* the indexes of a table that hold an entry
OccupiedReps(t) == {r \in Reps : Occupied(t, r)}

\* C12 as amended: the handles live in one store at the same time are
\* different indexes with different objects; a table holds only objects
\* created in its store, and no two tables hold the same object; a lookup in
\* a store resolves to an object of that store, whatever the index.
C12_LiveHandlesDistinct ==
    /\ \A s \in StoreIds :
          /\ Cardinality(ObjectsIn(stores.tab[s])) = Cardinality(OccupiedReps(stores.tab[s]))
          /\ \A id \in ObjectsIn(stores.tab[s]) : stores.owner[id] = s
          /\ \A o \in StoreIds \ {s} :
                ObjectsIn(stores.tab[s]) \cap ObjectsIn(stores.tab[o]) = {}
    /\ (stores.res.op \in {"new", "use"} /\ stores.res.outcome = "ok")
          => /\ stores.owner[stores.res.obj] = stores.res.store
             /\ ObjectAt(stores.tab[stores.res.store], stores.res.rep) = stores.res.obj
    /\ stores.res.op = "store" => stores.tab[stores.res.store] = EmptyTable

C12_Witness ==
    /\ \A s \in StoreIds : stores.state[s] = "running" /\ Occupied(stores.tab[s], 0)
    /\ ObjectAt(stores.tab[1], 0) # ObjectAt(stores.tab[2], 0)
    /\ stores.res.op = "use"
    /\ stores.res.outcome = "ok"
    /\ stores.res.rep = 0

\* C13: after the drop of a handle that resolved to an object of its type has
\* returned, no entry is at the index of the handle in the table of the store.
C13_DropRemovesEntry ==
    (stores.res.op = "drop" /\ stores.res.outcome = "ok" /\ stores.res.obj # 0)
        => ~Occupied(stores.tab[stores.res.store], stores.res.rep)

(***************************************************************************)
(* Claims about the identity token manager (IdentitySpec).                 *)
(***************************************************************************)
\* C15: of the get_token calls that overlap on an expired cache, at most one
\* performs the client-credentials exchange: never two calls both hold an
\* exchanged token and wait to re-check the cache.
C15_SingleExchange ==
    Cardinality({c \in Calls : ident.calls[c].pc = "recheck"}) <= 1

\* C16: a get_token call that follows a call which performed the exchange, and
\* starts within the lifetime of the token that call returned, returns the
\* same token and performs no exchange: one exchange for the two calls.
C16_SuccessiveCallsShareToken ==
    \A c \in Calls :
        (ident.calls[c].pc # "idle" /\ ident.calls[c].follows)
            => /\ ident.calls[c].pc = "done"
               /\ ident.calls[c].result = TokenOk(ident.calls[c].first)
               /\ ~ident.calls[c].exchanged

C16_Witness ==
    \E c \in Calls :
        /\ ident.calls[c].pc = "done"
        /\ ident.calls[c].follows
        /\ ident.calls[c].now > 0
        /\ ident.calls[c].result = TokenOk(ident.calls[c].first)
        /\ ident.calls[c].first \in Tokens

\* C36: get_token(S) never returns a token that was obtained by an exchange
\* requesting a scope list different from S: the token a call returned was
\* obtained by an exchange for the scope list of that call.
C36_TokenForRequestedScopes ==
    [][\A c \in Calls :
          (ident.calls[c].pc # "done" /\ ident'.calls[c].pc = "done" /\ ident'.calls[c].result.ok)
              => ident'.granted = CallerScopes[c]]_vars

(***************************************************************************)
(* Claims about the telemetry export (OtelSpec).                           *)
(***************************************************************************)
\* the spans forwarded by the latest export
SentSpans ==
    UNION {{otel.export.sent[i].spans[j] : j \in 1..Len(otel.export.sent[i].spans)} :
              i \in 1..Len(otel.export.sent)}

SentCount ==
    LET RECURSIVE Sum(_)
        Sum(i) == IF i = 0 THEN 0 ELSE Len(otel.export.sent[i].spans) + Sum(i - 1)
    IN Sum(Len(otel.export.sent))

\* C21: every span of a batch exported while a host span is active is
\* forwarded, with the trace id of the host span as its trace id and the span
\* id of the host span as its parent span id.
C21_GuestSpansUnderHostSpan ==
    (otel.export.at.active /\ otel.export.result = "ok" /\ otel.export.sent # <<>>)
        => /\ SentCount = Len(otel.export.batch)
           /\ \A sp \in SentSpans :
                 /\ sp.trace_id = otel.export.at.trace_id
                 /\ sp.parent_span_id = otel.export.at.span_id

C21_Witness ==
    /\ otel.export.at.active
    /\ otel.export.result = "ok"
    /\ Len(otel.export.sent) = 2
    /\ \E i \in 1..Len(otel.export.batch) :
          otel.export.batch[i].parent_span_id = <<"0", "1">>
    /\ \A sp \in SentSpans : sp.parent_span_id = otel.export.at.span_id

(***************************************************************************)
(* Claims about the outbound HTTP sender (SendSpec).                       *)
(***************************************************************************)
\* C22: a response returned to the guest has no header of the forbidden set,
\* and has every other header the upstream sent, in order.
C22_NoForbiddenHeaderReturned ==
    send.result.kind = "response"
        => /\ \A i \in 1..Len(send.result.headers) :
                 send.result.headers[i] \notin ForbiddenNames
           /\ send.result.headers =
                 SelectSeq(send.upstream.headers, LAMBDA h : h \notin ForbiddenNames)

C22_Witness ==
    /\ send.result.kind = "response"
    /\ send.upstream.headers = FORBIDDEN_HEADERS \o <<"content-type">>
    /\ send.result.headers = <<"content-type">>

\* C23: a request with two or more Host headers goes upstream with exactly
\* one Host header, the last of the original ones.
C23_SingleLastHost ==
    (send.upstream.sent /\ Len(send.req.hosts) >= 2)
        => send.upstream.hosts = <<send.req.hosts[Len(send.req.hosts)]>>

\* C24: a request sent with a timeout is not pending once the timeout has
\* passed, and has then returned ConnectionTimeout.
C24_TimeoutReturnsConnectionTimeout ==
    (send.req.options.some /\ send.elapsed >= send.req.options.timeout
        /\ send.phase \in {"waiting", "done"} /\ send.upstream.sent)
        => /\ send.phase = "done"
           /\ send.result = SendResult("error", "ConnectionTimeout", <<>>)

(***************************************************************************)
(* Claims about the messaging pump (PumpSpec).                             *)
(***************************************************************************)
\* tasks whose handler failed: the call failed or the guest returned an error
FailedTasks == {m \in Messages : pump.task[m] \in HandleOutcomes \ {"guest_ok"}}

\* C25: every guest handler failure is counted in processing_errors, and a
\* failure never stops the pump: while the stream is open the next message
\* can still be dispatched.
C25_HandlerFailureCounted ==
    /\ pump.processing_errors = Cardinality(FailedTasks)
    /\ \A m \in Messages :
           (pump.open /\ pump.task[m] = "queued"
              /\ \A k \in Messages : k < m => pump.task[k] # "queued")
           => ENABLED Dispatch(m)

(***************************************************************************)
(* Claims about the capability calls (CapabilitySpec).                     *)
(***************************************************************************)
\* C26: a capability call made with valid handles never traps the guest or
\* panics the host.
C26_ValidCallsNeverTrap ==
    /\ cap.guest = "running"
    /\ cap.last.kind \in {"none", "ok", "err"}

RECURSIVE SumDeltas(_)
SumDeltas(cs) ==
    IF cs = {} THEN 0
    ELSE LET c == CHOOSE x \in cs : TRUE
         IN  cap.calls[c].delta + SumDeltas(cs \ {c})

\* the increment calls that have returned Ok
Incremented == {c \in Callers : cap.calls[c].result.kind = "ok"}

\* C27: once the concurrent increments on a key holding v have returned,
\* the key holds v plus the sum of their deltas.
C27_IncrementsAddUp ==
    (cap.value.some /\ \A c \in Callers : cap.calls[c].pc # "read")
    => FromBeBytes(cap.value.bytes) = cap.base + SumDeltas(Incremented)

\* C28: an increment that found the key absent has created it with the
\* value delta and returned delta.
C28_AbsentKeyCreated ==
    \A c \in Callers :
        (cap.calls[c].pc = "done" /\ ~cap.calls[c].value.some)
        => /\ cap.calls[c].result.kind = "ok"
           /\ cap.calls[c].result.val = cap.calls[c].delta
           /\ cap.value.some

(***************************************************************************)
(* Claims about the guest error handling (ErrorSpec).                      *)
(***************************************************************************)
\* C29: a typed error E returned by the handler gives a response with the
\* status E.status() and the body E's formatted string, also when E comes
\* wrapped in an anyhow error.
C29_ResponseIsStatusAndDisplay ==
    (errs.response.some /\ errs.root.variant \in ErrorVariants /\ errs.converted = NoError)
    => /\ errs.response.status = Status(errs.root)
       /\ errs.response.error = Display(errs.root)

\* the layers from the outermost to the innermost, each followed by ": "
RECURSIVE LayersPrefix(_)
LayersPrefix(layers) ==
    IF layers = <<>> THEN "" ELSE Head(layers) \o ": " \o LayersPrefix(Tail(layers))

\* C30: a typed error wrapped with any number of context layers and
\* converted back has the variant and the code of the original, and its
\* description is the chain joined by ": ", outermost context first and the
\* original error's own text last.
C30_ContextKeepsVariantAndCode ==
    (errs.converted # NoError /\ errs.root.variant \in ErrorVariants)
    => /\ errs.converted.variant = errs.root.variant
       /\ errs.converted.code = errs.root.code
       /\ errs.converted.description = LayersPrefix(errs.layers) \o Display(errs.root)

\* two different layers around a typed error whose code is not the default
C30_Witness ==
    /\ errs.converted # NoError
    /\ errs.root.variant = "BadGateway"
    /\ errs.root.code = "invalid"
    /\ errs.layers = <<"outer", "middle">>
    /\ errs.converted.description = "outer: middle: code: invalid, description: inner"

(***************************************************************************)
(* Claims about the WebSocket backend and server (WebSocketSpec).          *)
(***************************************************************************)
\* the events that were handed to a handler, and those a subscription holds
HandledEvents == {ws.handled[i] : i \in 1..Len(ws.handled)}
QueuedEvents == {ws.queue[i] : i \in 1..Len(ws.queue)}

\* C31: every message received from a connected client while the server
\* runs reaches the guest handler: it has been handed to a handler or is
\* still held for the run loop, and no message is handled twice.
C31_EveryMessageDelivered ==
    /\ \A m \in (ws.early + 1)..ws.sent : m \in HandledEvents \cup QueuedEvents
    /\ Cardinality(HandledEvents) = Len(ws.handled)

\* C37: the connection map never holds more than MAX_CONNECTIONS entries.
C37_ConnectionsBounded ==
    Cardinality(ws.connections) <= MAX_CONNECTIONS

(***************************************************************************)
(* Claims about the runtime startup (BootSpec).                            *)
(***************************************************************************)
\* every host is linked and every backend connected
AllBound ==
    /\ boot.phase \in {"connect", "running"}
    /\ boot.linked = Len(boot.hosts)
    /\ boot.connected = Len(boot.hosts)

\* C32: no guest instance exists and no inbound server takes work before
\* every host is linked and every backend connected, and no server runs
\* after a link or a backend connection has failed.
C32_NothingRunsBeforeAllBound ==
    /\ (boot.instances > 0 \/ boot.accepted > 0) => AllBound
    /\ boot.phase = "running" => boot.listener # "failed"

(***************************************************************************)
(* Further claims about the resource table (TableSpec).                    *)
(***************************************************************************)
\* C33: after set_data(h, d) succeeds, the guest has a handle whose data()
\* returns d.
C33_MutatedMessageReadable ==
    [][\A rep \in Reps, data \in Payloads :
          (TableGet(table, rep, "message").ok /\ MsgSetData(rep, data))
              => \E h \in Reps :
                    /\ TableGet(table', h, "message").ok
                    /\ TableGet(table', h, "message").val = data]_vars

(***************************************************************************)
(* Further claims about Control::try_from (ParseSpec).                     *)
(***************************************************************************)
\* the directive lists that hold the directives of ds in another order
Reorderings(ds) ==
    {[i \in 1..Len(ds) |-> ds[p[i]]] :
        p \in {q \in [1..Len(ds) -> 1..Len(ds)] :
                  \A i, j \in 1..Len(ds) : q[i] = q[j] => i = j}}

\* C34: whether a Cache-Control value is accepted does not depend on the
\* order of its directives.
C34_OrderIndependent ==
    (Parsed /\ headers.cc.p = "text")
        => \A ds \in Reorderings(headers.cc.s) :
              TryFrom([headers EXCEPT !.cc = Text(ds)]).ok = parsed.ok

(***************************************************************************)
(* Further claims about the outbound cache (Spec).                         *)
(***************************************************************************)
\* C35: a request parsed as no-store gets back exactly the upstream's
\* response, headers included, and the cache is neither read nor written.
C35_NoStoreReturnsUpstreamResponse ==
    [][\A req \in HandleRequests, up \in Upstreams :
          (up.ok /\ TryFrom(req).ok /\ TryFrom(req).control.no_store /\ HandleCall(req, up))
              => /\ last'.resp = up.resp
                 /\ ~last'.read
                 /\ bucket' = bucket]_vars

(***************************************************************************)
(* Claims about the SQL parameters (SqlSpec).                              *)
(***************************************************************************)
\* C38: a query or exec parameter is bound as SQL NULL only if it is the null
\* (None) form of its DataType: every parameter that carries a value, of any
\* DataType including date and time, is bound as a non-null value.
C38_NullOnlyForNone ==
    \A i \in 1..Len(sql.bound) :
        (sql.bound[i] = ValueNull) => ~sql.params[i].some

(***************************************************************************)
(* Claims about the generated messaging guest (GuestSpec).                 *)
(***************************************************************************)
\* the declared topics
Declared == {guest.topics[i] : i \in 1..Len(guest.topics)}

\* C39: with ENV unset (empty environment prefix), a message arriving on a
\* declared topic is routed to that topic's handler and is not rejected with
\* 'Incorrect environment'.
C39_UnsetEnvRoutesDeclaredTopic ==
    (guest.phase = "handled" /\ guest.env = <<>> /\ guest.topic \in Declared)
        => /\ guest.result.error # "Incorrect environment"
           /\ guest.result.handler # 0
           /\ guest.topics[guest.result.handler] = guest.topic

\* C40: a message whose topic is one declared topic A, behind the prefix of
\* the environment, is never dispatched to the handler declared for a
\* different topic B, whatever the order in which the topics are declared.
C40_NeverAnotherTopicsHandler ==
    \A a \in Declared :
        (guest.phase = "handled" /\ guest.topic = guest.env \o <<"-">> \o a /\ guest.result.handler # 0)
            => guest.topics[guest.result.handler] = a

(***************************************************************************)
(* Claims about the outbound cache (Spec).                                 *)
(***************************************************************************)
Called == last.kind # "none"

\* the request engages the cache and its parsed state reads the bucket
ReadsCache(req) ==
    LET c == TryFrom(req)
    IN  req.cc.p # "absent" /\ c.ok /\ ~c.control.no_cache /\ ~c.control.no_store

\* the requests of the guest whose parsed state reads the bucket: those of
\* HandleRequests that ReadsCache holds of
ReadingRequests ==
    {[cc |-> Text(<<Dir("max-age", n)>>), inm |-> Text(<<"a">>)] : n \in {0, MaxAgeValue}}

\* the (status, headers, body) tuple held by an archive
StoredTuple(data) == [status |-> data.status, headers |-> data.headers, body |-> data.body]

\* C1: when the parser rejects the request's Cache-Control / If-None-Match
\* headers, handle fails with an error and neither reads the cache, nor writes
\* it, nor calls the network.
C1_RejectedFailsFast ==
    (Called /\ last.req.cc.p # "absent" /\ ~TryFrom(last.req).ok)
        => (last.kind = "error" /\ ~last.read /\ ~last.wrote /\ ~last.net)

C1_Witness ==
    /\ last.kind = "error"
    /\ last.req.cc.p # "absent"
    /\ ~TryFrom(last.req).ok
    /\ bucket[<<"a">>].present

C4_NoCacheSkipsReadThenWrites ==
    (last.kind = "fetched" /\ HasDirective(last.req.cc, "no-cache"))
        => (~last.read /\ last.wrote)

\* a live entry was read whose bytes are no archive
ReadUndecodable == last.read /\ last.found.some /\ last.found.data = Garbage

\* C5 as stated: when the bytes under the requested key cannot be decoded, the
\* read counts as a miss and the request goes to the network.
C5_DecodeErrorIsMiss == ReadUndecodable => last.net

\* C5 as amended: when the bytes under the requested key cannot be decoded,
\* the call fails with an error, without a network call and without a write.
C5_DecodeErrorFailsCall ==
    ReadUndecodable => (last.kind = "error" /\ ~last.net /\ ~last.wrote)

C5_Witness == ReadUndecodable /\ last.kind = "error"

\* the reading request names max-age and finds no live entry
MissWithMaxAge(req, b, t) ==
    /\ HasDirective(req.cc, "max-age")
    /\ ~BucketGet(b, req.inm.s, t).some

\* C6 as stated: after a miss with max-age=N and key k and a successful fetch,
\* the returned response carries ETag: k and the bucket holds that response's
\* status, headers and body under k, expiring N seconds from now.
C6_MissStoresReturnedResponse ==
    [][\A req \in ReadingRequests, up \in Upstreams :
        (up.ok /\ MissWithMaxAge(req, bucket, now) /\ HandleCall(req, up))
        => /\ last'.resp.headers["etag"] = Text(req.inm.s)
           /\ bucket'[req.inm.s] =
                [present |-> TRUE,
                 data |-> Archive(last'.resp.status, last'.resp.headers, last'.resp.body),
                 expires |-> now + TryFrom(req).control.max_age]]_vars

\* the header value as the record keeps it: text as it is, anything else empty
KeptValue(v) == IF v.p = "text" \/ v.p = "absent" THEN v ELSE Text(<<>>)

\* C6 as amended: the returned response carries ETag: k; for N > 0 the bucket
\* holds under k its status and body and its headers, each value that is not
\* text replaced by the empty string, expiring N seconds from now; for N = 0
\* the bucket is left as it was.
C6_MissStoresDisplayedResponse ==
    [][\A req \in ReadingRequests, up \in Upstreams :
        (up.ok /\ MissWithMaxAge(req, bucket, now) /\ HandleCall(req, up))
        => LET N == TryFrom(req).control.max_age IN
           /\ last'.resp.headers["etag"] = Text(req.inm.s)
           /\ last'.resp.status = up.resp.status
           /\ last'.resp.body = up.resp.body
           /\ IF N > 0
              THEN bucket'[req.inm.s] =
                     [present |-> TRUE,
                      data |-> Archive(last'.resp.status,
                                       [n \in HeaderNames |-> KeptValue(last'.resp.headers[n])],
                                       last'.resp.body),
                      expires |-> now + N]
              ELSE bucket' = bucket]_vars

C6_Witness ==
    /\ last.kind = "fetched"
    /\ last.read /\ last.wrote
    /\ last.resp.headers["content-type"] = Opaque
    /\ bucket[<<"a">>].present
    /\ bucket[<<"a">>].data.headers["content-type"] = Text(<<>>)

\* C7 as stated: the response of a cache hit for key k has the header ETag: k,
\* whatever headers the stored entry had.
C7_HitAddsEtag ==
    last.kind = "hit" => last.resp.headers["etag"] = Text(last.req.inm.s)

\* C7 as amended: a cache hit returns the stored tuple as it is; its ETag
\* header is the ETag header of the stored entry, and none is added.
C7_HitReturnsStoredTuple ==
    last.kind = "hit"
        => /\ last.found.some
           /\ last.resp.status = last.found.data.status
           /\ last.resp.body = last.found.data.body
           /\ \A n \in HeaderNames : last.resp.headers[n] = last.found.data.headers[n]

C7_Witness ==
    /\ last.kind = "hit"
    /\ last.resp.headers["etag"] = NoHeader

====
